---- MODULE Spec2Model ----
(***************************************************************************)
(* paderbox audio I/O: the slice-notation parser (_parse_audio_slice), the *)
(* single-path loader (load_audio), the legacy loader (audioread), the     *)
(* container loader (recursive_load_audio), audio_length and read_nist_wsj *)
(* of paderbox/io/audioread.py, as state machines; and the plot helpers    *)
(* _AxesHandler (paderbox/visualization/context_manager.py) and facet_grid *)
(* (nt/visualization/module_facet_grid.py).                                *)
(*                                                                         *)
(* Strings are sequences of symbols.  A symbol is one character, except    *)
(* that a file-name extension (".wav", ".m4a", ".sph") is one symbol.      *)
(* An optional value (Python None or a value) is the empty sequence or a   *)
(* one-element sequence.                                                   *)
(***************************************************************************)
EXTENDS Integers, Sequences, FiniteSets, TLC

VARIABLES
    req,      \* the arguments of the call in progress
    written,  \* what the caller wrote into the path: real path, bounds, channel
    file,     \* the audio file every real path of the run names
    pc,       \* position of the call in the function body
    handles,  \* audio source handles open right now
    opens,    \* audio source handles opened since the call started
    loc,      \* the call's locals path, frames, start, stop, channel as rebound
    signal,   \* load_audio's local `signal`
    rate,     \* load_audio's local `sample_rate` (optional)
    out,      \* what the call gave its caller: a value or an exception
    prev,     \* the calls completed before this one: <<[req, out], ...>>
    stack,    \* the activations of recursive_load_audio and of
              \* read_nist_wsj, the innermost last
    tmp,      \* the temporary files on disk
    handler,  \* the _AxesHandler: _columns, subplots, counter
    handed,   \* the accesses made to the handler, in order
    grid      \* facet_grid's arguments and locals

vars == <<req, written, file, pc, handles, opens, loc, signal, rate, out, prev, stack,
          tmp, handler, handed, grid>>

----------------------------------------------------------------------------
(* Bounds of the model                                                     *)

MaxNum == 11        \* largest bound written into an annotation (parser runs)
MaxChan == 2        \* largest channel number written into an annotation
MaxFrames == 2      \* frames in the longest audio file
MaxChannels == 2    \* channels in the widest audio file
TimeDen == 2        \* seconds are given in steps of 1/TimeDen

----------------------------------------------------------------------------
(* Optional values, strings                                                *)

None == <<>>
Some(v) == <<v>>
IsNone(o) == Len(o) = 0
Val(o) == o[1]

Max(a, b) == IF a >= b THEN a ELSE b
Min(a, b) == IF a <= b THEN a ELSE b

DigitSeq == <<"0", "1", "2", "3", "4", "5", "6", "7", "8", "9">>
Digits == {DigitSeq[k] : k \in 1..10}
IsDigit(c) == c \in Digits
DigitVal(c) == (CHOOSE k \in 1..10 : DigitSeq[k] = c) - 1

Extensions == {".wav", ".m4a", ".sph"}

\* str(n) for n >= 0: how a caller writes a bound into the annotation
RECURSIVE Dec(_)
Dec(n) == IF n < 10 THEN <<DigitSeq[n + 1]>>
          ELSE Dec(n \div 10) \o <<DigitSeq[(n % 10) + 1]>>

\* int(x) for a string of digits
RECURSIVE IntOf(_)
IntOf(ds) == IF ds = <<>> THEN 0
             ELSE 10 * IntOf(SubSeq(ds, 1, Len(ds) - 1)) + DigitVal(ds[Len(ds)])

\* '::' in path
HasDelim(s) == \E i \in 1..(Len(s) - 1) : s[i] = ":" /\ s[i + 1] = ":"

\* the index of the first ':' of the rightmost '::' (str.rsplit searches from
\* the right)
LastDelimMut(s) == CHOOSE i \in 1..(Len(s) - 1) :
    /\ s[i] = ":" /\ s[i + 1] = ":"
    /\ \A j \in 1..(i - 1) : ~(s[j] = ":" /\ s[j + 1] = ":")

LastDelim(s) == CHOOSE i \in 1..(Len(s) - 1) :
    /\ s[i] = ":" /\ s[i + 1] = ":"
    /\ \A j \in (i + 1)..(Len(s) - 1) : ~(s[j] = ":" /\ s[j + 1] = ":")

\* path.rsplit('::', maxsplit=1)
RSplit(s) == [head |-> SubSeq(s, 1, LastDelim(s) - 1),
              tail |-> SubSeq(s, LastDelim(s) + 2, Len(s))]

\* Path(path).suffix
Suffix(s) == IF Len(s) > 1 /\ s[Len(s)] \in Extensions THEN s[Len(s)] ELSE ""

----------------------------------------------------------------------------
(* Channel selections: None, an int, a slice or a list of ints             *)

ChNone == [tag |-> "none", i |-> 0, lo |-> None, hi |-> None, idx |-> <<>>]
ChInt(i) == [ChNone EXCEPT !.tag = "int", !.i = i]
ChSlice(lo, hi) == [ChNone EXCEPT !.tag = "slice", !.lo = lo, !.hi = hi]
ChList(l) == [ChNone EXCEPT !.tag = "list", !.idx = l]

----------------------------------------------------------------------------
(* re.fullmatch(_PATTERN, s)                                               *)
(*   \[(\d+)?:(\d+)?(?:,(?:(\d+)?:(\d+)?|(\d+)?))?\]                       *)

\* the length of the longest run of digits of s that starts at index i
RECURSIVE DigitRun(_, _)
DigitRun(s, i) == IF i <= Len(s) /\ IsDigit(s[i]) THEN 1 + DigitRun(s, i + 1) ELSE 0

At(s, i) == IF i >= 1 /\ i <= Len(s) THEN s[i] ELSE ""

\* a capture group: None when it took no part in the match, else its text
Group(s, i, n) == IF n = 0 THEN None ELSE Some(SubSeq(s, i, i + n - 1))

NoMatch == [matched |-> FALSE, groups |-> <<None, None, None, None, None>>]
Matched(g1, g2, g3, g4, g5) == [matched |-> TRUE, groups |-> <<g1, g2, g3, g4, g5>>]

\* (\d+)? is greedy and a digit is no ':' ',' or ']', so each group is the
\* whole run of digits at its place; the alternative (\d+)?:(\d+)? is tried
\* before (\d+)?.
FullMatch(s) ==
    LET d1 == DigitRun(s, 2)
        p  == 2 + d1                  \* the first ':'
        d2 == DigitRun(s, p + 1)
        q  == p + 1 + d2              \* ']' or ','
        d3 == DigitRun(s, q + 1)
        r  == q + 1 + d3              \* ':' of the channel range, or ']'
        d4 == DigitRun(s, r + 1)
        t  == r + 1 + d4              \* ']' after a channel range
        g1 == Group(s, 2, d1)
        g2 == Group(s, p + 1, d2)
    IN  IF At(s, 1) # "[" \/ At(s, p) # ":" THEN NoMatch
        ELSE IF At(s, q) = "]" /\ q = Len(s)
            THEN Matched(g1, g2, None, None, None)
        ELSE IF At(s, q) # "," THEN NoMatch
        ELSE IF At(s, r) = ":" /\ At(s, t) = "]" /\ t = Len(s)
            THEN Matched(g1, g2, Group(s, q + 1, d3), Group(s, r + 1, d4), None)
        ELSE IF At(s, r) = "]" /\ r = Len(s)
            THEN Matched(g1, g2, None, None, Group(s, q + 1, d3))
        ELSE NoMatch

----------------------------------------------------------------------------
(* Outcomes of a call                                                      *)

NoSignal == [ndim |-> 0, shape |-> <<>>, data |-> <<>>, dtype |-> "float64"]

\* what recursive_load_audio returns: a buffer as load_audio returned it
\* ("array"), a (signal, sample_rate) tuple ("pair"), the np.array of the
\* entries' results ("stacked", items in order under a new first axis), a
\* list of them ("list") or a dict ("dict", the values in the order of keys)
NoValue == [tag |-> "none", buf |-> NoSignal, rate |-> None, shape |-> <<>>,
            dtype |-> "", items |-> <<>>, keys |-> <<>>]

\* what is passed as `path` to recursive_load_audio: a leaf (anything that
\* is no tuple, list, generator or dict), a sequence of entries or a dict
NoNode == [tag |-> "none", path |-> <<>>, kids |-> <<>>, keys |-> <<>>]
Leaf(p) == [NoNode EXCEPT !.tag = "leaf", !.path = p]
SeqNode(tag, kids) == [NoNode EXCEPT !.tag = tag, !.kids = kids]
DictNode(keys, kids) == [NoNode EXCEPT !.tag = "dict", !.keys = keys, !.kids = kids]

\* status: "none" while the call runs, "return" or "raise" after it.
\* A raised exception has its class (exc), the path (epath) and numbers
\* (enums) and unit (eunit) it carries, whether its message embeds the
\* file-type probe, and the class of its __cause__.
NoOut == [status |-> "none", exc |-> "", epath |-> <<>>, enums |-> <<>>,
          eunit |-> "", emsg |-> "", probe |-> FALSE, cause |-> "",
          path |-> <<>>, start |-> 0, stop |-> None, channel |-> ChNone,
          signal |-> NoSignal, rate |-> None, value |-> NoValue]

Raise(exc, msg) == [NoOut EXCEPT !.status = "raise", !.exc = exc, !.emsg = msg]

----------------------------------------------------------------------------
(* _parse_audio_slice(path, start, stop, channel)                          *)

\* map(lambda x: x if x is None else int(x), groups)
IntGroup(g) == IF IsNone(g) THEN None ELSE Some(IntOf(Val(g)))

\* lines 337-338: the channel selection from groups 3, 4 and 5
ChannelOfMut(channel_start, channel_stop, channel) ==
    IF ~IsNone(channel_start) \/ ~IsNone(channel_stop)
        THEN ChSlice(channel_start, channel_stop)
    ELSE IF ~IsNone(channel) THEN ChInt(0)
    ELSE ChNone

ChannelOf(channel_start, channel_stop, channel) ==
    IF ~IsNone(channel) THEN ChInt(Val(channel))
    ELSE IF ~(IsNone(channel_start) /\ IsNone(channel_stop))
        THEN ChSlice(channel_start, channel_stop)
    ELSE ChNone

\* lines 340-341
StartOfMut(start) == IF IsNone(start) THEN 1 ELSE Val(start)

StartOf(start) == IF IsNone(start) THEN 0 ELSE Val(start)

\* line 323-325: the three entry assertions
SliceArgsDefaultMut(start, stop, channel) == TRUE

SliceArgsDefault(start, stop, channel) ==
    start = 0 /\ IsNone(stop) /\ channel.tag = "none"

\* line 327: ' ' in audio_slice
HasSpaceMut(s) == \E k \in 1..Len(s) : s[k] \in {" ", "\t", "\n"}

HasSpace(s) == \E k \in 1..Len(s) : s[k] = " "

\* lines 334-335: raise ValueError(path) from e, where e is the
\* AttributeError of None.groups()
SliceErrorMut(path) == [Raise("ValueError", "path") EXCEPT !.cause = "AttributeError"]

SliceError(path) ==
    [Raise("ValueError", "path") EXCEPT !.epath = path, !.cause = "AttributeError"]

ParseAudioSlice(path, start, stop, channel) ==
    IF ~SliceArgsDefault(start, stop, channel)
        THEN Raise("AssertionError", "args")
    ELSE LET sp == RSplit(path)
             m  == FullMatch(sp.tail)
             g  == [k \in 1..5 |-> IntGroup(m.groups[k])]
         IN  IF HasSpace(sp.tail)
                 THEN Raise("AssertionError", "space")
             ELSE IF ~m.matched
                 THEN SliceError(path)
             ELSE [NoOut EXCEPT !.status = "return",
                                !.path = sp.head,
                                !.start = StartOf(g[1]),
                                !.stop = g[2],
                                !.channel = ChannelOf(g[3], g[4], g[5])]

----------------------------------------------------------------------------
(* Audio files and buffers                                                 *)

MaxRate == 3        \* the larger of the two sample rates of the files
FillValue == 0      \* the fill_value a caller supplies

Rates == {1, MaxRate}

\* the sample of frame t (from 0) and channel c (from 0) of a file: all
\* samples differ from each other, from FillValue and from 0
Sample(t, c) == 10 * (t + 1) + c + 1

\* a buffer: its number of axes, its shape, its rows and its numeric type
\* (numpy's default float64 unless set otherwise); a one-dimensional buffer
\* has one row.  Sample(t, c) stands for the sample in whatever numeric
\* type the buffer has.
Buf1(row) == [ndim |-> 1, shape |-> <<Len(row)>>, data |-> <<row>>,
              dtype |-> "float64"]
Buf2(n, m, rows) == [ndim |-> 2, shape |-> <<n, m>>, data |-> rows,
                     dtype |-> "float64"]

\* a buffer of numeric type t
AsType(b, t) == [b EXCEPT !.dtype = t]

Size(b) == IF b.ndim = 0 THEN 1
           ELSE IF b.ndim = 1 THEN b.shape[1]
           ELSE b.shape[1] * b.shape[2]

\* slice(start, stop).indices(n) with step 1
Clamp(v, n) == IF v < 0 THEN Max(v + n, 0) ELSE Min(v, n)
SliceIndices(start, stop, n) ==
    [start |-> IF IsNone(start) THEN 0 ELSE Clamp(Val(start), n),
     stop  |-> IF IsNone(stop) THEN n ELSE Clamp(Val(stop), n)]

\* SoundFile._prepare_read(start, stop, frames): the frame to seek to and
\* the number of frames to read
PrepareRead(f, start, stop, frames) ==
    LET ix == SliceIndices(Some(start), stop, f.frames)
        sp == Max(ix.stop, ix.start)
    IN  [err |-> frames >= 0 /\ ~IsNone(stop),
         pos |-> ix.start,
         frames |-> IF frames < 0 THEN sp - ix.start ELSE frames]

\* the number of frames SoundFile.read returns: all that were asked for
\* when fill_value is given, else no more than the file has left
ReadLengthMut(f, pos, frames, fill_value) ==
    IF frames < 0 \/ frames > f.frames - pos THEN f.frames - pos ELSE frames

ReadLength(f, pos, frames, fill_value) ==
    IF frames < 0 \/ (frames > f.frames - pos /\ IsNone(fill_value))
        THEN f.frames - pos
    ELSE frames

\* always_2d=channel is not None (line 238)
Always2dMut(channel) == TRUE

Always2d(channel) == channel.tag # "none"

\* SoundFile.read(frames, fill_value=, always_2d=) from frame pos: rows are
\* frames, columns channels; one-dimensional for a mono file unless always_2d
SoundFileRead(f, pos, frames, fill_value, always_2d) ==
    LET n    == ReadLength(f, pos, frames, fill_value)
        got  == Min(n, f.frames - pos)
        rows == [k \in 1..n |-> [c \in 1..f.channels |->
                    IF k <= got THEN Sample(pos + k - 1, c - 1) ELSE Val(fill_value)]]
    IN  IF f.channels > 1 \/ always_2d
            THEN Buf2(n, f.channels, rows)
        ELSE Buf1([k \in 1..n |-> rows[k][1]])

\* the lossy-codec path (lines 211-220): the decoder's buffers hold the
\* frames one after the other, the channels of a frame side by side;
\* np.concatenate makes one axis of them
M4aRead(f) ==
    Buf1([k \in 1..(f.frames * f.channels) |->
             Sample((k - 1) \div f.channels, (k - 1) % f.channels)])

\* signal.T (line 270)
TransposeMut(b) == b

Transpose(b) ==
    IF b.ndim = 2
        THEN AsType(Buf2(b.shape[2], b.shape[1],
                         [c \in 1..b.shape[2] |->
                             [k \in 1..b.shape[1] |-> b.data[k][c]]]),
                    b.dtype)
    ELSE b

\* signal[channel, ] on a two-dimensional buffer (line 275): an int drops
\* the axis, a slice or list keeps it; an index outside -C..C-1 is numpy's
\* IndexError
IndexOkMut(b, channel) == TRUE

IndexOk(b, channel) ==
    LET C == b.shape[1]
    IN  CASE channel.tag = "int"   -> channel.i >= -C /\ channel.i < C
          [] channel.tag = "list"  -> \A k \in 1..Len(channel.idx) :
                                         channel.idx[k] >= -C /\ channel.idx[k] < C
          [] OTHER -> TRUE

TakeChannel(b, channel) ==
    LET C  == b.shape[1]
        n  == b.shape[2]
        ix == SliceIndices(channel.lo, channel.hi, C)
        w  == Max(ix.stop - ix.start, 0)
        sel == CASE channel.tag = "int" -> Buf1(b.data[((channel.i + C) % C) + 1])
                 [] channel.tag = "slice" ->
                       Buf2(w, n, [k \in 1..w |-> b.data[ix.start + k]])
                 [] channel.tag = "list" ->
                       Buf2(Len(channel.idx), n,
                            [k \in 1..Len(channel.idx) |->
                                b.data[((channel.idx[k] + C) % C) + 1]])
    IN  AsType(sel, b.dtype)

\* int(np.round(n / d)): to the nearest integer, a half to the even one
RoundDiv(n, d) ==
    LET q == n \div d          \* floor
        r == n % d             \* 0 <= r < d
    IN  IF 2 * r < d THEN q
        ELSE IF 2 * r > d THEN q + 1
        ELSE IF q % 2 = 0 THEN q ELSE q + 1

----------------------------------------------------------------------------
(* Requests                                                                *)

\* the keyword defaults of load_audio (lines 22-34); kind is the Python type
\* of `path`: a str, a pathlib.Path or an open file object; dtype is the name
\* of a numpy type or "None"; tree is what recursive_load_audio gets as `path`
\* frames, start and stop count samples; with unit 'seconds' they (and the
\* offset and duration of audioread) count steps of 1/TimeDen seconds
DefaultReq == [fn |-> "load_audio", kind |-> "str", path |-> <<>>,
               tree |-> NoNode,
               frames |-> -1, start |-> 0, stop |-> None, channel |-> ChNone,
               dtype |-> "float64", fill_value |-> None, expected_sample_rate |-> None,
               unit |-> "samples", return_sample_rate |-> FALSE,
               offset |-> 0, duration |-> None]

\* the parameters a function body rebinds
LocOf(r) == [kind |-> r.kind, path |-> r.path, frames |-> r.frames,
             start |-> r.start, stop |-> r.stop, channel |-> r.channel,
             dtype |-> r.dtype]

\* what a caller writes after '::' : optional bounds, then nothing, a bare
\* ',', a channel range or a channel index
NoChText == [kind |-> "none", lo |-> None, hi |-> None, i |-> 0]
ChTexts(maxc) ==
    {NoChText, [NoChText EXCEPT !.kind = "comma"]}
    \cup {[NoChText EXCEPT !.kind = "range", !.lo = lo, !.hi = hi] :
            lo \in {None} \cup {Some(c) : c \in 0..maxc},
            hi \in {None} \cup {Some(c) : c \in 0..maxc}}
    \cup {[NoChText EXCEPT !.kind = "index", !.i = c] : c \in 0..maxc}

NumText(o, zeros) ==
    IF IsNone(o) THEN <<>>
    ELSE (IF zeros THEN <<"0">> ELSE <<>>) \o Dec(Val(o))

ChText(c) ==
    CASE c.kind = "none"  -> <<>>
      [] c.kind = "comma" -> <<",">>
      [] c.kind = "range" -> <<",">> \o NumText(c.lo, FALSE) \o <<":">>
                                     \o NumText(c.hi, FALSE)
      [] c.kind = "index" -> <<",">> \o Dec(c.i)

\* '[a:b,c]' as the caller writes it (zeros: a is written with a leading 0)
Annotation(a, b, c, zeros) ==
    <<"[">> \o NumText(a, zeros) \o <<":">> \o NumText(b, FALSE) \o ChText(c) \o <<"]">>

NoWritten == [valid |-> FALSE, p |-> <<>>, a |-> None, b |-> None, c |-> NoChText,
              zeros |-> FALSE]

Written(p, a, b, c, zeros) ==
    [valid |-> TRUE, p |-> p, a |-> a, b |-> b, c |-> c, zeros |-> zeros]

Annotated(w) == w.p \o <<":", ":">> \o Annotation(w.a, w.b, w.c, w.zeros)

\* real paths; two of them contain '::' or end in ':' themselves
RealPaths == {<<"f", ".wav">>, <<"f", ".m4a">>,
              <<"d", ":", ":", "f", ".wav">>, <<"f", ":">>}

\* tails that do not follow the slice grammar
BadTails == {<<>>, <<"[", "]">>, <<"[", "1", "]">>, <<"1", ":", "2">>,
             <<"[", "-", "5", ":", "]">>, <<"[", "0", ":", "1", ":", "2", "]">>,
             <<"[", "1", ":", " ", "2", "]">>, <<"[", ":", ",", "1", ":", "2", ",", "]">>,
             <<"[", ":", "a", "]">>, <<"[", ":", "]", "]">>, <<"x", "[", ":", "]">>,
             <<"[", "1", ":", "\t", "2", "]">>, <<"[", ":", "]", "\n">>,
             <<"[", ":">>, <<":", "]">>, <<"[", "3", "]">>, <<"[", ":", ",", ",", "]">>}

Opt(S) == {None} \cup {Some(v) : v \in S}

\* no handler is constructed, facet_grid is not called
NoHandler == [columns |-> 0, subplots |-> <<>>, counter |-> -1]
NoGrid == [args |-> <<>>, data_list |-> <<>>, function_list |-> <<>>,
           kwargs_list |-> <<>>, colwrap |-> 0, number_of_plots |-> 0,
           number_of_rows |-> 0, axis |-> "", index |-> 0, calls |-> <<>>,
           off |-> {}]
NoPlots == handler = NoHandler /\ handed = <<>> /\ grid = NoGrid

----------------------------------------------------------------------------
(* Calls of _parse_audio_slice on its own                                  *)

InitCommon ==
    /\ pc = "call"
    /\ handles = 0
    /\ opens = 0
    /\ loc = LocOf(req)
    /\ signal = NoSignal
    /\ rate = None
    /\ out = NoOut
    /\ prev = <<>>
    /\ stack = <<>>
    /\ tmp = {}

ParseReq(path) == [DefaultReq EXCEPT !.fn = "_parse_audio_slice", !.path = path]

InitParse ==
    /\ \/ \E p \in RealPaths, a \in Opt(0..MaxNum), b \in Opt(0..MaxNum),
            c \in ChTexts(MaxChan), zeros \in BOOLEAN :
            /\ zeros => ~IsNone(a)
            /\ written = Written(p, a, b, c, zeros)
            /\ req = ParseReq(Annotated(written))
       \/ \* the example of the docstring, 'file.wav::[8000:16000,0]'
          /\ written = Written(<<"f", ".wav">>, Some(8000), Some(16000),
                               [NoChText EXCEPT !.kind = "index"], FALSE)
          /\ req = ParseReq(Annotated(written))
       \/ \E p \in RealPaths, t \in BadTails :
            /\ written = NoWritten
            /\ req = ParseReq(p \o <<":", ":">> \o t)
       \/ \E s \in {1, 2}, e \in Opt({3}), ch \in {ChNone, ChInt(0)} :
            /\ written = NoWritten
            /\ req = [ParseReq(<<"f", ".wav", ":", ":", "[", ":", "]">>) EXCEPT
                         !.start = s, !.stop = e, !.channel = ch]
    /\ file = [state |-> "good", frames |-> 1, channels |-> 1, samplerate |-> 1,
               subtype |-> "PCM_16"]
    /\ InitCommon
    /\ NoPlots

\* the call: _parse_audio_slice(path, start, stop, channel)
ParseCall ==
    /\ pc = "call"
    /\ req.fn = "_parse_audio_slice"
    /\ out' = ParseAudioSlice(req.path, req.start, req.stop, req.channel)
    /\ pc' = "done"
    /\ UNCHANGED <<req, written, file, handles, opens, loc, signal, rate, prev, stack,
                   tmp, handler, handed, grid>>

NextParse == ParseCall

SpecParse == InitParse /\ [][NextParse]_vars

----------------------------------------------------------------------------
(* load_audio, statement by statement                                      *)

\* normalize_path(path, as_str=True): a pathlib.Path becomes a str, a str
\* stays one, a file object is left untouched
NormalizePath(kind) == IF kind = "Path" THEN "str" ELSE kind

\* the end of a with-block (lines 195-197, 211-220, 222-239): the handle it
\* opened is closed, on normal exit and on an exception alike
ReleaseMut(h) == h

Release(h) == h - 1

\* a call ends by raising o; the with-block the exception passes, if it is
\* raised in one, closes its handle
Fail(o) ==
    /\ out' = o
    /\ pc' = "done"
    /\ handles' = IF handles > 0 THEN Release(handles) ELSE handles

\* line 184
FramesDefault(frames) == frames = -1

\* lines 179-187: the locals after the slice notation of the path, if there
\* is one, has been parsed, or the exception this raises
SliceStage(r) ==
    LET kind == NormalizePath(r.kind)
        p    == ParseAudioSlice(r.path, r.start, r.stop, r.channel)
    IN  IF kind = "str" /\ HasDelim(r.path)
            THEN IF r.unit # "samples"
                    THEN [err |-> Raise("AssertionError", "unit"), loc |-> LocOf(r)]
                 ELSE IF ~FramesDefault(r.frames)
                    THEN [err |-> Raise("AssertionError", "frames"), loc |-> LocOf(r)]
                 ELSE IF p.status = "raise" THEN [err |-> p, loc |-> LocOf(r)]
                 ELSE [err |-> NoOut,
                       loc |-> [kind |-> kind, path |-> p.path, frames |-> r.frames,
                                start |-> p.start, stop |-> p.stop,
                                channel |-> p.channel, dtype |-> r.dtype]]
        ELSE [err |-> NoOut, loc |-> [LocOf(r) EXCEPT !.kind = kind]]

ResolveSlice ==
    /\ pc = "call" /\ req.fn = "load_audio"
    /\ LET st == SliceStage(req)
       IN  IF st.err.status = "raise"
               THEN Fail(st.err) /\ UNCHANGED loc
           ELSE loc' = st.loc /\ pc' = "unit" /\ UNCHANGED <<out, handles>>
    /\ UNCHANGED <<req, written, file, opens, signal, rate, prev, stack,
                   tmp, handler, handed, grid>>

\* lines 189-190
UnitSamples ==
    /\ pc = "unit" /\ req.unit = "samples"
    /\ pc' = "decode"
    /\ UNCHANGED <<req, written, file, handles, opens, loc, signal, rate, out, prev, stack,
                   tmp, handler, handed, grid>>

\* line 204: ValueError(unit)
UnitErrorMut(unit) == Raise("ValueError", "unit")

UnitError(unit) == [Raise("ValueError", "unit") EXCEPT !.eunit = unit]

\* lines 203-204
UnitInvalid ==
    /\ pc = "unit" /\ req.unit \notin {"samples", "seconds"}
    /\ Fail(UnitError(req.unit))
    /\ UNCHANGED <<req, written, file, opens, loc, signal, rate, prev, stack,
                   tmp, handler, handed, grid>>

\* lines 192-193
NegativeStopMut(stop) == FALSE

NegativeStop(stop) == ~IsNone(stop) /\ Val(stop) < 0

\* lines 191-195: the negative-stop check, then the metadata open, which
\* stands outside the try block
ProbeOpen ==
    /\ pc = "unit" /\ req.unit = "seconds"
    /\ IF NegativeStop(loc.stop)
           THEN /\ Fail([Raise("NotImplementedError", "unit, stop") EXCEPT
                            !.eunit = req.unit, !.enums = <<Val(loc.stop)>>])
                /\ UNCHANGED opens
       ELSE IF file.state = "noopen"
           THEN Fail(Raise("RuntimeError", "raw")) /\ opens' = opens + 1
       ELSE handles' = handles + 1 /\ opens' = opens + 1 /\ pc' = "probe"
                /\ UNCHANGED out
    /\ UNCHANGED <<req, written, file, loc, signal, rate, prev, stack, tmp, handler, handed, grid>>

\* lines 198-202, with start, frames and stop in steps of 1/TimeDen seconds
SecondsToSamplesMut(l, samplerate) ==
    [l EXCEPT
        !.start = RoundDiv(l.start * samplerate, TimeDen),
        !.frames = IF l.frames > 0
                       THEN RoundDiv((l.start + l.frames) * samplerate, TimeDen)
                            - RoundDiv(l.start * samplerate, TimeDen)
                   ELSE l.frames \div TimeDen,
        !.stop = IF ~IsNone(l.stop) /\ Val(l.stop) > 0
                     THEN Some(RoundDiv(Val(l.stop) * samplerate, TimeDen))
                 ELSE l.stop]

SecondsToSamples(l, samplerate) ==
    [l EXCEPT
        !.start = RoundDiv(l.start * samplerate, TimeDen),
        !.frames = IF l.frames > 0 THEN RoundDiv(l.frames * samplerate, TimeDen)
                   ELSE l.frames \div TimeDen,
        !.stop = IF ~IsNone(l.stop) /\ Val(l.stop) > 0
                     THEN Some(RoundDiv(Val(l.stop) * samplerate, TimeDen))
                 ELSE l.stop]

\* lines 196-202: the sample rate is read, the handle closed, the request
\* converted
ProbeClose ==
    /\ pc = "probe"
    /\ handles' = Release(handles)
    /\ loc' = SecondsToSamples(loc, file.samplerate)
    /\ pc' = "decode"
    /\ UNCHANGED <<req, written, file, opens, signal, rate, out, prev, stack,
                   tmp, handler, handed, grid>>

\* line 207
IsM4a(l) == l.kind = "str" /\ Suffix(l.path) = ".m4a"

\* lines 241-258: what a RuntimeError of the decoder becomes
DecodeFailureMut(l) == Raise("RuntimeError", "raw")

DecodeFailure(l) ==
    IF l.kind = "str"
        THEN [Raise("RuntimeError",
                    IF Suffix(l.path) = ".wav" THEN "Could not read" ELSE "Wrong suffix")
                  EXCEPT !.epath = l.path, !.probe = TRUE, !.cause = "RuntimeError"]
    ELSE Raise("RuntimeError", "raw")

\* lines 207-213 and 222-225: the decoder is chosen and the source opened;
\* the lossy-codec decoder's errors are no RuntimeError
DecodeOpen ==
    /\ pc = "decode"
    /\ IF IsM4a(loc)
           THEN IF ~(loc.start = 0 /\ IsNone(loc.stop))
                    THEN Fail(Raise("AssertionError", "partial")) /\ UNCHANGED opens
                ELSE IF file.state = "noopen"
                    THEN Fail(Raise("audioread.DecodeError", "raw")) /\ opens' = opens + 1
                ELSE /\ handles' = handles + 1 /\ opens' = opens + 1
                     /\ pc' = "read_m4a" /\ UNCHANGED out
       ELSE IF file.state = "noopen"
           THEN Fail(DecodeFailure(loc)) /\ opens' = opens + 1
       ELSE /\ handles' = handles + 1 /\ opens' = opens + 1
            /\ pc' = "read" /\ UNCHANGED out
    /\ UNCHANGED <<req, written, file, loc, signal, rate, prev, stack, tmp, handler, handed, grid>>

\* line 235: _prepare_read seeks from the start of the file, on a handle
\* of this call; the calls made before (earlier of them) leave no read
\* position behind
SeekSetMut(f, pos, earlier) == Min(pos + earlier, f.frames)

SeekSet(f, pos, earlier) == pos

\* the subtypes a sound file reports; the last has no entry in the mapping
\* of lines 228-232
Subtypes == {"PCM_16", "FLOAT", "DOUBLE", "PCM_24"}

\* lines 228-232: the numeric type of a subtype ("" where the mapping has
\* none)
SubtypeDtypeMut(subtype) == "float64"

SubtypeDtype(subtype) ==
    CASE subtype = "PCM_16" -> "int16"
      [] subtype = "FLOAT"  -> "float32"
      [] subtype = "DOUBLE" -> "float64"
      [] OTHER -> ""

\* lines 226-233: the local dtype after the lookup
ResolveDtype(dtype, subtype) ==
    IF dtype = "None" THEN SubtypeDtype(subtype) ELSE dtype

\* lines 226-240
DecodeRead ==
    /\ pc = "read"
    /\ LET pr == PrepareRead(file, loc.start, loc.stop, loc.frames)
           dt == ResolveDtype(loc.dtype, file.subtype)
       IN  IF dt = ""
               THEN Fail(Raise("KeyError", "subtype")) /\ UNCHANGED <<loc, signal, rate>>
           ELSE IF pr.err
               THEN Fail(Raise("TypeError", "frames, stop")) /\ UNCHANGED <<loc, signal, rate>>
           ELSE IF file.state = "noread"
               THEN Fail(DecodeFailure(loc)) /\ UNCHANGED <<loc, signal, rate>>
           ELSE /\ loc' = [loc EXCEPT !.frames = pr.frames, !.dtype = dt]
                /\ signal' = AsType(SoundFileRead(file, SeekSet(file, pr.pos, Len(prev)),
                                                  pr.frames, req.fill_value,
                                                  Always2d(loc.channel)),
                                    dt)
                /\ rate' = Some(file.samplerate)
                /\ handles' = Release(handles)
                /\ pc' = "rate"
                /\ UNCHANGED out
    /\ UNCHANGED <<req, written, file, opens, prev, stack, tmp, handler, handed, grid>>

\* lines 214-220
DecodeM4a ==
    /\ pc = "read_m4a"
    /\ IF file.state = "noread"
           THEN Fail(Raise("audioread.DecodeError", "raw")) /\ UNCHANGED <<signal, rate>>
       ELSE /\ signal' = M4aRead(file)
            /\ rate' = Some(file.samplerate)
            /\ handles' = Release(handles)
            /\ pc' = "rate"
            /\ UNCHANGED out
    /\ UNCHANGED <<req, written, file, opens, loc, prev, stack, tmp, handler, handed, grid>>

\* lines 260-261
RateMismatchMut(expected_sample_rate, sample_rate) == FALSE

RateMismatch(expected_sample_rate, sample_rate) ==
    ~IsNone(expected_sample_rate) /\ Val(expected_sample_rate) # sample_rate

RateError(expected_sample_rate, sample_rate) ==
    [Raise("ValueError", "Requested sampling rate") EXCEPT
        !.enums = <<Val(expected_sample_rate), sample_rate>>]

\* lines 260-265
CheckRate ==
    /\ pc = "rate"
    /\ IF RateMismatch(req.expected_sample_rate, Val(rate))
           THEN Fail(RateError(req.expected_sample_rate, Val(rate)))
       ELSE pc' = "transpose" /\ UNCHANGED <<out, handles>>
    /\ UNCHANGED <<req, written, file, opens, loc, signal, rate, prev, stack,
                   tmp, handler, handed, grid>>

\* line 270
TransposeSignal ==
    /\ pc = "transpose"
    /\ signal' = Transpose(signal)
    /\ pc' = "select"
    /\ UNCHANGED <<req, written, file, handles, opens, loc, rate, out, prev, stack,
                   tmp, handler, handed, grid>>

\* line 276
IsEmptyMut(b) == FALSE

IsEmpty(b) == Size(b) = 0

\* lines 273-277
SelectChannel ==
    /\ pc = "select"
    /\ IF loc.channel.tag = "none"
           THEN pc' = "return" /\ UNCHANGED <<signal, out, handles>>
       ELSE IF signal.ndim # 2
           THEN Fail(Raise("AssertionError", "ndim")) /\ UNCHANGED signal
       ELSE IF ~IndexOk(signal, loc.channel)
           THEN Fail(Raise("IndexError", "out of bounds")) /\ UNCHANGED signal
       ELSE IF IsEmpty(TakeChannel(signal, loc.channel))
           THEN /\ Fail(Raise("ValueError", "Returned signal would be empty"))
                /\ UNCHANGED signal
       ELSE /\ signal' = TakeChannel(signal, loc.channel)
            /\ pc' = "return"
            /\ UNCHANGED <<out, handles>>
    /\ UNCHANGED <<req, written, file, opens, loc, rate, prev, stack, tmp, handler, handed, grid>>

\* lines 279-282
Return ==
    /\ pc = "return"
    /\ out' = [NoOut EXCEPT !.status = "return", !.signal = signal,
                            !.rate = IF req.return_sample_rate THEN rate ELSE None]
    /\ pc' = "done"
    /\ UNCHANGED <<req, written, file, handles, opens, loc, signal, rate, prev, stack,
                   tmp, handler, handed, grid>>

----------------------------------------------------------------------------
(* audioread(path, offset, duration, expected_sample_rate)                 *)

\* np.squeeze: the axes of length one are dropped
Squeeze(b) ==
    IF b.ndim # 2 THEN b
    ELSE IF b.shape[1] = 1 /\ b.shape[2] = 1
        THEN [ndim |-> 0, shape |-> <<>>, data |-> b.data, dtype |-> b.dtype]
    ELSE IF b.shape[1] = 1 THEN Buf1(b.data[1])
    ELSE IF b.shape[2] = 1 THEN Buf1([c \in 1..b.shape[1] |-> b.data[c][1]])
    ELSE b

\* lines 468-473 and 494-498: the reader is opened; an OSError is raised
\* again with the output of the `file` tool
AudioreadOpen ==
    /\ pc = "call" /\ req.fn = "audioread"
    /\ opens' = opens + 1
    /\ loc' = [loc EXCEPT !.kind = NormalizePath(req.kind)]
    /\ IF file.state = "noopen"
           THEN Fail([Raise("OSError", "file") EXCEPT
                         !.epath = req.path, !.probe = TRUE, !.cause = "OSError"])
       ELSE handles' = handles + 1 /\ pc' = "wav_read" /\ UNCHANGED out
    /\ UNCHANGED <<req, written, file, signal, rate, prev, stack, tmp, handler, handed, grid>>

\* lines 474-493: channels-by-samples zeros, filled from frame frames_before
AudioreadRead ==
    /\ pc = "wav_read"
    /\ LET sr      == file.samplerate
           before  == RoundDiv(req.offset * sr, TimeDen)
           samples == IF IsNone(req.duration) THEN file.frames - before
                      ELSE RoundDiv(Val(req.duration) * sr, TimeDen)
           data    == Buf2(file.channels, samples,
                           [c \in 1..file.channels |-> [k \in 1..samples |->
                               IF before + k <= file.frames
                                   THEN Sample(before + k - 1, c - 1) ELSE 0]])
       IN  IF RateMismatch(req.expected_sample_rate, sr)
               THEN Fail(RateError(req.expected_sample_rate, sr))
                    /\ UNCHANGED <<signal, rate>>
           ELSE IF samples < 0
               THEN Fail(Raise("ValueError", "negative dimensions"))
                    /\ UNCHANGED <<signal, rate>>
           ELSE /\ signal' = Squeeze(data)
                /\ rate' = Some(sr)
                /\ out' = [NoOut EXCEPT !.status = "return", !.signal = Squeeze(data),
                                        !.rate = Some(sr)]
                /\ handles' = handles - 1
                /\ pc' = "done"
    /\ UNCHANGED <<req, written, file, opens, loc, prev, stack, tmp, handler, handed, grid>>

----------------------------------------------------------------------------
(* Sessions of load_audio and audioread calls                              *)

GoodFiles(rates) ==
    {[state |-> "good", frames |-> L, channels |-> C, samplerate |-> sr,
      subtype |-> "PCM_16"] :
        L \in 0..MaxFrames, C \in 1..MaxChannels, sr \in rates}

BadFiles ==
    {[state |-> st, frames |-> 1, channels |-> 1, samplerate |-> 1,
      subtype |-> "PCM_16"] :
        st \in {"noopen", "noread"}}

\* start=, stop= and channel= as the annotation w encodes them, unwritten
\* parts at their defaults
ExplicitChannel(c) ==
    IF c.kind = "index" THEN ChInt(c.i)
    ELSE IF c.kind = "range" /\ ~(IsNone(c.lo) /\ IsNone(c.hi)) THEN ChSlice(c.lo, c.hi)
    ELSE ChNone

ExplicitReq(r, w) ==
    [r EXCEPT !.path = w.p,
              !.start = IF IsNone(w.a) THEN 0 ELSE Val(w.a),
              !.stop = w.b,
              !.channel = ExplicitChannel(w.c)]

\* the channel selections callers pass
Channels ==
    {ChNone, ChInt(-1), ChInt(0), ChInt(MaxChannels),
     ChSlice(None, None), ChSlice(None, Some(1)), ChSlice(Some(1), None),
     ChSlice(Some(MaxChannels), None),
     ChList(<<>>), ChList(<<0>>), ChList(<<0, 1>>), ChList(<<MaxChannels>>)}

\* frames, start, stop as callers pass them with unit 'samples'
Windows ==
    {<<f, s, None>> : f \in -1..(MaxFrames + 1), s \in -1..MaxFrames}
    \cup {<<-1, s, Some(e)>> : s \in 0..1, e \in -1..(MaxFrames + 1)}
    \cup {<<1, 0, Some(1)>>}

\* a path with slice notation and nothing else
InitAnnotated ==
    \E p \in {<<"f", ".wav">>, <<"f", ".m4a">>, <<"d", ":", ":", "f", ".wav">>},
       a \in Opt(0..1), b \in Opt({1, MaxFrames + 1}), c \in ChTexts(MaxChannels),
       f \in GoodFiles({1}) \cup {fl \in BadFiles : fl.state = "noopen"} :
        /\ written = Written(p, a, b, c, FALSE)
        /\ req = [DefaultReq EXCEPT !.path = Annotated(written)]
        /\ file = f

\* a path with slice notation together with explicit parameters
InitMixed ==
    \E p \in {<<"f", ".wav">>, <<"d", ":", ":", "f", ".wav">>},
       t \in {<<"[", ":", "]">>, <<"[", "1", ":", "2", ",", "0", "]">>, <<"[", "1", "]">>},
       k \in {"str", "Path"}, u \in {"samples", "seconds", "hours"},
       fr \in {-1, 1}, s \in {0, 1}, e \in Opt({1}), ch \in {ChNone, ChInt(0)} :
        /\ written = NoWritten
        /\ req = [DefaultReq EXCEPT !.kind = k, !.path = p \o <<":", ":">> \o t,
                                    !.unit = u,
                                    !.frames = IF u = "seconds" THEN fr * TimeDen ELSE fr,
                                    !.start = s, !.stop = e, !.channel = ch]
        /\ file = [state |-> "good", frames |-> MaxFrames, channels |-> MaxChannels,
                   samplerate |-> 1, subtype |-> "PCM_16"]

\* read windows, channel selections and fill values on plain paths
InitWindow ==
    \E p \in {<<"f", ".wav">>, <<"f", ".m4a">>}, w \in Windows, ch \in Channels,
       fv \in Opt({FillValue}), f \in GoodFiles({1}) :
        /\ written = NoWritten
        /\ req = [DefaultReq EXCEPT !.path = p, !.frames = w[1], !.start = w[2],
                                    !.stop = w[3], !.channel = ch, !.fill_value = fv]
        /\ file = f

\* expected sample rates, units, kinds of source and files that do not decode
InitRates ==
    \E p \in {<<"f", ".wav">>, <<"f", ".sph">>, <<"f", ".m4a">>},
       k \in {"str", "Path", "fileobj"}, u \in {"samples", "seconds", "hours"},
       esr \in Opt(Rates \cup {2}), rsr \in BOOLEAN,
       w \in {<<-1, 0, None>>, <<1, 0, None>>, <<-1, 0, Some(1)>>, <<1, 0, Some(1)>>},
       ch \in {ChNone, ChInt(0), ChInt(MaxChannels)},
       f \in {g \in GoodFiles(Rates) : g.frames = MaxFrames} \cup BadFiles :
        /\ written = NoWritten
        /\ req = [DefaultReq EXCEPT
                     !.kind = k, !.path = IF k = "fileobj" THEN <<>> ELSE p,
                     !.unit = u, !.expected_sample_rate = esr,
                     !.return_sample_rate = rsr,
                     !.frames = IF u = "seconds" THEN w[1] * TimeDen ELSE w[1],
                     !.start = w[2],
                     !.stop = IF u = "seconds" /\ ~IsNone(w[3])
                                  THEN Some(Val(w[3]) * TimeDen) ELSE w[3],
                     !.channel = ch]
        /\ file = f

\* start, frames and stop in seconds, in steps of 1/TimeDen, a start and a
\* stop before 0 among them
InitSeconds ==
    \E p \in {<<"f", ".wav">>, <<"f", ".m4a">>},
       s \in -1..(TimeDen + 1),
       w \in {<<fr, None>> : fr \in {-TimeDen} \cup (-1..(TimeDen + 1))}
              \cup {<<-TimeDen, Some(e)>> : e \in -1..(TimeDen + 1)}
              \cup {<<1, Some(-1)>>},
       f \in {g \in GoodFiles(Rates) : g.frames > 0}
              \cup {fl \in BadFiles : fl.state = "noopen"} :
        /\ written = NoWritten
        /\ req = [DefaultReq EXCEPT !.path = p, !.unit = "seconds",
                                    !.start = s, !.frames = w[1], !.stop = w[2]]
        /\ file = f

\* numeric types asked for, files of every subtype
InitDtype ==
    \E p \in {<<"f", ".wav">>, <<"f", ".m4a">>},
       dt \in {"float64", "float32", "int16", "None"},
       st \in Subtypes, ch \in {ChNone, ChInt(0), ChSlice(None, Some(1))},
       f \in {g \in GoodFiles({1}) : g.frames > 0} :
        /\ written = NoWritten
        /\ req = [DefaultReq EXCEPT !.path = p, !.dtype = dt, !.channel = ch]
        /\ file = [f EXCEPT !.subtype = st]

\* calls of the legacy loader, offsets within the file
InitAudioread ==
    \E k \in {"str", "Path"}, esr \in Opt(Rates), off \in 0..TimeDen,
       dur \in Opt(0..(2 * TimeDen)),
       f \in GoodFiles(Rates) \cup {fl \in BadFiles : fl.state = "noopen"} :
        /\ RoundDiv(off * f.samplerate, TimeDen) <= f.frames
        /\ written = NoWritten
        /\ req = [DefaultReq EXCEPT !.fn = "audioread", !.kind = k,
                                    !.path = <<"f", ".wav">>,
                                    !.expected_sample_rate = esr,
                                    !.offset = off, !.duration = dur]
        /\ file = f

Init ==
    /\ \/ InitAnnotated
       \/ InitMixed
       \/ InitWindow
       \/ InitRates
       \/ InitSeconds
       \/ InitDtype
       \/ InitAudioread
    /\ InitCommon
    /\ NoPlots

\* after load_audio(p + '::[a:b,c]') the caller loads the same file with
\* the explicit parameters start=a, stop=b, channel=c
TwinCall ==
    /\ pc = "done" /\ req.fn = "load_audio" /\ written.valid /\ prev = <<>>
    /\ prev' = <<[req |-> req, out |-> out, opens |-> opens]>>
    /\ req' = ExplicitReq(req, written)
    /\ loc' = LocOf(req')
    /\ pc' = "call"
    /\ handles' = 0
    /\ opens' = 0
    /\ signal' = NoSignal
    /\ rate' = None
    /\ out' = NoOut
    /\ UNCHANGED <<written, file, stack, tmp, handler, handed, grid>>

\* the caller makes the same call once more: the same path, the same
\* parameters, the file unchanged
RepeatCall ==
    /\ pc = "done" /\ req.fn = "load_audio" /\ req.kind \in {"str", "Path"}
    /\ prev = <<>>
    /\ prev' = <<[req |-> req, out |-> out, opens |-> opens]>>
    /\ loc' = LocOf(req)
    /\ pc' = "call"
    /\ handles' = 0
    /\ opens' = 0
    /\ signal' = NoSignal
    /\ rate' = None
    /\ out' = NoOut
    /\ UNCHANGED <<req, written, file, stack, tmp, handler, handed, grid>>

Next ==
    \/ ResolveSlice
    \/ UnitSamples
    \/ UnitInvalid
    \/ ProbeOpen
    \/ ProbeClose
    \/ DecodeOpen
    \/ DecodeRead
    \/ DecodeM4a
    \/ CheckRate
    \/ TransposeSignal
    \/ SelectChannel
    \/ Return
    \/ AudioreadOpen
    \/ AudioreadRead
    \/ TwinCall
    \/ RepeatCall

Spec == Init /\ [][Next]_vars

----------------------------------------------------------------------------
(* recursive_load_audio(path, **kwargs)                                    *)

\* the classes of `path` that line 386 takes for a sequence of entries
SeqTags == {"list", "tuple", "generator"}

\* an activation: the arguments of the call (tree is its `path`, the other
\* fields its kwargs), the entry the comprehension of line 387 or 400 is at
\* and the results it has so far
Activation(r) == [call |-> r, i |-> 1, data |-> <<>>]

\* the audio files of a run with several paths, by the first symbol of the
\* path: "b" is shorter, "c" has a second channel, "i" holds floats, "r" has
\* another sample rate, "x" does not open
Disk(path) ==
    LET a == [state |-> "good", frames |-> MaxFrames, channels |-> 1,
              samplerate |-> 1, subtype |-> "PCM_16"]
    IN  CASE path[1] = "b" -> [a EXCEPT !.frames = 1]
          [] path[1] = "c" -> [a EXCEPT !.channels = MaxChannels]
          [] path[1] = "i" -> [a EXCEPT !.subtype = "FLOAT"]
          [] path[1] = "r" -> [a EXCEPT !.samplerate = MaxRate]
          [] path[1] = "x" -> [a EXCEPT !.state = "noopen"]
          [] OTHER -> a

\* lines 279-282 as seen by the caller: the buffer, or the tuple of buffer
\* and sample rate
LeafValue(o, r) ==
    IF r.return_sample_rate
        THEN [NoValue EXCEPT !.tag = "pair", !.buf = o.signal, !.rate = o.rate]
    ELSE [NoValue EXCEPT !.tag = "array", !.buf = o.signal,
                         !.shape = o.signal.shape, !.dtype = o.signal.dtype]

IsBuffer(v) == v.tag \in {"array", "stacked"}

\* np.array(data) finds one shape for all entries
SameShapeMut(data) == TRUE

SameShape(data) == \A k \in 1..Len(data) : data[k].shape = data[1].shape

\* numpy's type promotion among int16, float32 and float64
Rank(t) == CASE t = "int16" -> 1 [] t = "float32" -> 2 [] OTHER -> 3
Promote(t, u) == IF Rank(t) >= Rank(u) THEN t ELSE u

RECURSIVE ResultType(_)
ResultType(data) ==
    IF Len(data) = 1 THEN data[1].dtype
    ELSE Promote(data[1].dtype, ResultType(Tail(data)))

\* lines 389-398: np.array(data) when it is an array of numbers, else data.
\* Entries that are no buffers (tuples, dicts, lists) or buffers of
\* different shapes make np.array raise ValueError or give dtype object.
NpArray(data) ==
    IF data = <<>>
        THEN [NoValue EXCEPT !.tag = "stacked", !.shape = <<0>>, !.dtype = "float64"]
    ELSE IF (\A k \in 1..Len(data) : IsBuffer(data[k])) /\ SameShape(data)
        THEN [NoValue EXCEPT !.tag = "stacked",
                             !.shape = <<Len(data)>> \o data[1].shape,
                             !.dtype = ResultType(data),
                             !.items = data]
    ELSE [NoValue EXCEPT !.tag = "list", !.items = data]

\* the innermost activation
Top == stack[Len(stack)]

\* line 383-386: the call is entered
RecCall ==
    /\ pc = "call" /\ req.fn = "recursive_load_audio"
    /\ stack' = <<Activation(req)>>
    /\ pc' = "rec"
    /\ UNCHANGED <<req, written, file, handles, opens, loc, signal, rate, out, prev,
                   tmp, handler, handed, grid>>

\* lines 387 and 400: the next entry is loaded by a recursive call with the
\* same kwargs
RecDescend ==
    /\ pc = "rec"
    /\ Top.call.tree.tag \in SeqTags \cup {"dict"}
    /\ Top.i <= Len(Top.call.tree.kids)
    /\ stack' = Append(stack, Activation([Top.call EXCEPT
                                             !.tree = Top.call.tree.kids[Top.i]]))
    /\ UNCHANGED <<req, written, file, pc, handles, opens, loc, signal, rate, out, prev,
                   tmp, handler, handed, grid>>

\* line 402: load_audio(path, **kwargs)
RecLeaf ==
    /\ pc = "rec"
    /\ Top.call.tree.tag = "leaf"
    /\ req' = [Top.call EXCEPT !.fn = "load_audio", !.path = Top.call.tree.path,
                               !.tree = NoNode]
    /\ file' = Disk(Top.call.tree.path)
    /\ loc' = LocOf(req')
    /\ pc' = "call"
    /\ handles' = 0
    /\ opens' = 0
    /\ signal' = NoSignal
    /\ rate' = None
    /\ out' = NoOut
    /\ UNCHANGED <<written, prev, stack, tmp, handler, handed, grid>>

\* the innermost activation of stk returns v: to the caller of the
\* outermost call, or into the data of the activation that called it
Deliver(v, stk) ==
    LET rest == SubSeq(stk, 1, Len(stk) - 1)
    IN  /\ req' = stk[1].call
        /\ IF rest = <<>>
               THEN /\ out' = [NoOut EXCEPT !.status = "return", !.value = v]
                    /\ pc' = "done"
                    /\ stack' = <<>>
           ELSE /\ out' = NoOut
                /\ pc' = "rec"
                /\ stack' = [rest EXCEPT ![Len(rest)] =
                                [@ EXCEPT !.i = @ + 1, !.data = Append(@, v)]]

\* lines 387, 400 and 402 stand in no try block: an exception of load_audio
\* leaves every activation
LeafAbortsMut(o) == o.status = "raise" /\ o.exc # "ValueError"

LeafAborts(o) == o.status = "raise"

\* load_audio has ended: its exception ends the whole call, its result goes
\* to the activation of the leaf, which returns it (line 402)
RecLeafReturn ==
    /\ pc = "done" /\ req.fn = "load_audio" /\ stack # <<>>
    /\ prev' = Append(prev, [req |-> req, out |-> out, opens |-> opens])
    /\ IF LeafAborts(out)
           THEN /\ req' = stack[1].call
                /\ stack' = <<>>
                /\ UNCHANGED <<pc, out>>
       ELSE Deliver(LeafValue(out, req), stack)
    /\ UNCHANGED <<written, file, handles, opens, loc, signal, rate, tmp, handler, handed, grid>>

\* lines 389-398 and 400: all entries are loaded; a sequence returns
\* np.array(data) or data, a dict the dict of the results
RecCollect ==
    /\ pc = "rec"
    /\ Top.call.tree.tag \in SeqTags \cup {"dict"}
    /\ Top.i > Len(Top.call.tree.kids)
    /\ Deliver(IF Top.call.tree.tag = "dict"
                   THEN [NoValue EXCEPT !.tag = "dict", !.items = Top.data,
                                        !.keys = Top.call.tree.keys]
               ELSE NpArray(Top.data),
               stack)
    /\ UNCHANGED <<written, file, handles, opens, loc, signal, rate, prev,
                   tmp, handler, handed, grid>>

\* the paths of the leaves
LeafPaths ==
    {<<n, ".wav">> : n \in {"a", "b", "c", "i", "r", "x"}}
    \cup {<<"m", ".m4a">>, <<"c", ".wav", ":", ":", "[", ":", ",", "0", "]">>}

\* the structures callers pass: a leaf, sequences of leaves, nested
\* sequences and dicts
Trees ==
    LET a == Leaf(<<"a", ".wav">>)
        b == Leaf(<<"b", ".wav">>)
        r == Leaf(<<"r", ".wav">>)
        x == Leaf(<<"x", ".wav">>)
    IN  {Leaf(p) : p \in LeafPaths}
        \cup {SeqNode("list", <<>>)}
        \cup {SeqNode("list", <<Leaf(p), Leaf(q)>>) : p, q \in LeafPaths}
        \cup {SeqNode(t, <<e, f>>) : t \in {"tuple", "generator"}, e, f \in {a, b}}
        \cup {SeqNode("list", <<a, a, a>>), SeqNode("list", <<a, r, x>>),
              SeqNode("list", <<a, x, b>>),
              SeqNode("list", <<a, SeqNode("tuple", <<b, b>>)>>),
              SeqNode("list", <<SeqNode("list", <<a, a>>), SeqNode("list", <<a, a>>)>>),
              SeqNode("list", <<SeqNode("list", <<a, b>>), SeqNode("list", <<a, b>>)>>),
              SeqNode("list", <<a, SeqNode("list", <<x, b>>), b>>),
              DictNode(<<"a", "b">>, <<a, a>>),
              DictNode(<<"k">>, <<SeqNode("list", <<a, a>>)>>),
              SeqNode("list", <<DictNode(<<"a">>, <<a>>), DictNode(<<"a">>, <<a>>)>>)}

InitRec ==
    /\ \E t \in Trees, u \in {"samples", "seconds", "hours"},
          dt \in {"float64", "None"}, esr \in Opt({1}), rsr \in BOOLEAN,
          fr \in {-1, 1} :
           req = [DefaultReq EXCEPT
                     !.fn = "recursive_load_audio", !.tree = t, !.unit = u,
                     !.dtype = dt, !.expected_sample_rate = esr,
                     !.return_sample_rate = rsr,
                     !.frames = IF u = "seconds" THEN fr * TimeDen ELSE fr]
    /\ written = NoWritten
    /\ file = Disk(<<"a", ".wav">>)
    /\ InitCommon
    /\ NoPlots

NextRec ==
    \/ RecCall
    \/ RecDescend
    \/ RecLeaf
    \/ RecLeafReturn
    \/ RecCollect
    \/ ResolveSlice
    \/ UnitSamples
    \/ UnitInvalid
    \/ ProbeOpen
    \/ ProbeClose
    \/ DecodeOpen
    \/ DecodeRead
    \/ DecodeM4a
    \/ CheckRate
    \/ TransposeSignal
    \/ SelectChannel
    \/ Return

SpecRec == InitRec /\ [][NextRec]_vars

----------------------------------------------------------------------------
(* audio_length(path, unit) and read_nist_wsj(path, audioread_function)    *)

\* lines 525-532: the length of the file, in samples (len(f)) or in seconds
\* (len(f) / f.samplerate, kept as the two numbers); for any other unit the
\* ValueError is constructed and returned
AudioLength ==
    /\ pc = "call" /\ req.fn = "audio_length"
    /\ IF req.unit \in {"samples", "seconds"}
           THEN /\ opens' = opens + 1
                /\ out' = IF file.state = "noopen"
                              THEN Raise("RuntimeError", "raw")
                          ELSE [NoOut EXCEPT
                                   !.status = "return",
                                   !.enums = IF req.unit = "samples"
                                                 THEN <<file.frames>>
                                             ELSE <<file.frames, file.samplerate>>]
       ELSE /\ out' = [UnitError(req.unit) EXCEPT !.status = "return"]
            /\ UNCHANGED opens
    /\ pc' = "done"
    /\ UNCHANGED <<req, written, file, handles, loc, signal, rate, prev, stack,
                   tmp, handler, handed, grid>>

\* tmp_file.name
TmpName == <<"t">>

\* line 595: NamedTemporaryFile(delete=False) creates the file on disk
WsjCreate ==
    /\ pc = "call" /\ req.fn = "read_nist_wsj"
    /\ tmp' = tmp \cup {TmpName}
    /\ pc' = "convert"
    /\ UNCHANGED <<req, written, file, handles, opens, loc, signal, rate, out, prev,
                   stack, handler, handed, grid>>

\* lines 596-600: sph2pipe writes the wav into the temporary file, then
\* audioread_function is called on it with the kwargs; when sph2pipe exits
\* with an error, run_processes(cmd, ignore_return_code=False) raises
WsjConvert ==
    /\ pc = "convert"
    /\ IF file.state # "good"
           THEN /\ out' = Raise("CalledProcessError", "sph2pipe")
                /\ pc' = "done"
                /\ UNCHANGED <<req, loc, stack>>
       ELSE /\ stack' = <<Activation(req)>>
            /\ req' = [req EXCEPT !.fn = "audioread", !.path = TmpName, !.kind = "str"]
            /\ loc' = LocOf(req')
            /\ pc' = "call"
            /\ UNCHANGED out
    /\ UNCHANGED <<written, file, handles, opens, signal, rate, prev,
                   tmp, handler, handed, grid>>

\* lines 600-602: an exception of audioread_function leaves read_nist_wsj at
\* line 600; otherwise the temporary file is removed and the signal returned
WsjReturn ==
    /\ pc = "done" /\ req.fn = "audioread" /\ stack # <<>>
    /\ tmp' = IF out.status = "raise" THEN tmp ELSE tmp \ {req.path}
    /\ req' = stack[1].call
    /\ stack' = <<>>
    /\ UNCHANGED <<written, file, pc, handles, opens, loc, signal, rate, out, prev,
                   handler, handed, grid>>

\* calls of audio_length with the units callers write
InitAudioLength ==
    \E k \in {"str", "Path"}, u \in {"samples", "seconds", "hours"},
       f \in GoodFiles(Rates) \cup {fl \in BadFiles : fl.state = "noopen"} :
        /\ written = NoWritten
        /\ req = [DefaultReq EXCEPT !.fn = "audio_length", !.kind = k,
                                    !.path = <<"f", ".wav">>, !.unit = u]
        /\ file = f

\* calls of read_nist_wsj with audioread's keyword arguments
InitWsj ==
    \E k \in {"str", "Path"}, esr \in Opt(Rates), off \in 0..TimeDen,
       dur \in Opt(0..(2 * TimeDen)),
       f \in GoodFiles(Rates) \cup {fl \in BadFiles : fl.state = "noopen"} :
        /\ RoundDiv(off * f.samplerate, TimeDen) <= f.frames
        /\ written = NoWritten
        /\ req = [DefaultReq EXCEPT !.fn = "read_nist_wsj", !.kind = k,
                                    !.path = <<"f", ".sph">>,
                                    !.expected_sample_rate = esr,
                                    !.offset = off, !.duration = dur]
        /\ file = f

InitFiles ==
    /\ \/ InitAudioLength
       \/ InitWsj
    /\ InitCommon
    /\ NoPlots

NextFiles ==
    \/ AudioLength
    \/ WsjCreate
    \/ WsjConvert
    \/ AudioreadOpen
    \/ AudioreadRead
    \/ WsjReturn

SpecFiles == InitFiles /\ [][NextFiles]_vars

----------------------------------------------------------------------------
(* _AxesHandler(columns): new, last, handler[item]                         *)

MaxColumns == 2     \* columns of the widest handler
MaxAccesses == 3    \* accesses made to one handler
MaxIndex == 2       \* largest integer index a caller writes

\* what an access gave its caller: the axes at a flat position (row *
\* columns + column of the axes that was returned) or an exception; rows and
\* counter are len(subplots) and counter after the access
NoAccess == [kind |-> "", i |-> 0, row |-> 0, col |-> 0, status |-> "none",
             exc |-> "", flat |-> -1, rows |-> 0, counter |-> -1]

\* the item of handler[item]: an integer, a (row, col) tuple or list, or
\* anything else
IntItem(i) == [NoAccess EXCEPT !.kind = "int", !.i = i]
TupleItem(row, col) == [NoAccess EXCEPT !.kind = "tuple", !.row = row, !.col = col]
OtherItem == [NoAccess EXCEPT !.kind = "other"]

\* lines 280-285: rows are appended up to row, the counter is raised, then
\* the axes of the row is indexed with col; subplots[row] and axes[col] take
\* negative indices as Python lists and numpy arrays do and raise IndexError
\* outside their range
GetAxes(h, row, col) ==
    LET n    == Max(Len(h.subplots), row + 1)
        rows == [k \in 1..n |-> h.columns]
    IN  IF row < -n
            THEN [h |-> [h EXCEPT !.subplots = rows], status |-> "raise",
                  exc |-> "IndexError", flat |-> -1]
        ELSE LET h2 == [h EXCEPT !.subplots = rows,
                                 !.counter = Max(h.counter, row * h.columns + col)]
             IN  IF col < -h.columns \/ col >= h.columns
                     THEN [h |-> h2, status |-> "raise", exc |-> "IndexError",
                           flat |-> -1]
                 ELSE [h |-> h2, status |-> "return", exc |-> "",
                       flat |-> ((row + n) % n) * h.columns
                                + ((col + h.columns) % h.columns)]

\* lines 295-306; for a negative integer the value of item % self.counter
\* is computed and dropped, which divides by zero when the counter is 0
GetItem(h, item) ==
    CASE item.kind = "int" ->
            IF item.i < 0 /\ h.counter = 0
                THEN [h |-> h, status |-> "raise", exc |-> "ZeroDivisionError",
                      flat |-> -1]
            ELSE GetAxes(h, item.i \div h.columns, item.i % h.columns)
      [] item.kind = "tuple" -> GetAxes(h, item.row, item.col)
      [] OTHER -> [h |-> h, status |-> "raise", exc |-> "TypeError", flat |-> -1]

\* the handler after the access and the access appended to the history
Access(kind, item) ==
    LET r == GetItem(handler, item)
    IN  /\ handler' = r.h
        /\ handed' = Append(handed,
                            [item EXCEPT !.kind = kind, !.status = r.status,
                                         !.exc = r.exc, !.flat = r.flat,
                                         !.rows = Len(r.h.subplots),
                                         !.counter = r.h.counter])

\* lines 287-289
AxesNew ==
    /\ req.fn = "axes_context" /\ Len(handed) < MaxAccesses
    /\ Access("new", IntItem(handler.counter + 1))
    /\ UNCHANGED <<req, written, file, pc, handles, opens, loc, signal, rate, out,
                   prev, stack, tmp, grid>>

\* lines 291-293
AxesLast ==
    /\ req.fn = "axes_context" /\ Len(handed) < MaxAccesses
    /\ Access("last", IntItem(handler.counter))
    /\ UNCHANGED <<req, written, file, pc, handles, opens, loc, signal, rate, out,
                   prev, stack, tmp, grid>>

\* the items callers write: integers up to MaxIndex and below zero, rows up
\* to the second, columns inside the row, at its ends and one beyond
Items(columns) ==
    {IntItem(i) : i \in -MaxIndex..MaxIndex}
    \cup {TupleItem(row, col) : row \in -1..1, col \in {-1, 0, columns - 1, columns}}
    \cup {OtherItem}

\* lines 295-306: handler[item]
AxesGetItem ==
    /\ req.fn = "axes_context" /\ Len(handed) < MaxAccesses
    /\ \E item \in Items(handler.columns) : Access(item.kind, item)
    /\ UNCHANGED <<req, written, file, pc, handles, opens, loc, signal, rate, out,
                   prev, stack, tmp, grid>>

\* lines 261-264 and 344: axes_context(columns) constructs the handler
InitAxes ==
    /\ req = [DefaultReq EXCEPT !.fn = "axes_context"]
    /\ written = NoWritten
    /\ file = Disk(<<"a", ".wav">>)
    /\ InitCommon
    /\ \E columns \in 1..MaxColumns :
          handler = [columns |-> columns, subplots |-> <<>>, counter |-> -1]
    /\ handed = <<>>
    /\ grid = NoGrid

NextAxes ==
    \/ AxesNew
    \/ AxesLast
    \/ AxesGetItem

SpecAxes == InitAxes /\ [][NextAxes]_vars

----------------------------------------------------------------------------
(* facet_grid(data_list, function_list, kwargs_list, colwrap)              *)

MaxLen == 3         \* entries of the longest list
MaxColwrap == 2     \* columns of the widest grid

\* n * l for a list l
Times(n, l) == [k \in 1..(n * Len(l)) |-> l[((k - 1) % Len(l)) + 1]]

\* the empty kwargs {}
NoKwargs == 0

\* lines 8-23: the two assertions, the number of plots and rows, and the
\* kwargs repeated
FacetEnter ==
    /\ pc = "call" /\ req.fn = "facet_grid"
    /\ LET D  == Len(grid.data_list)
           F  == Len(grid.function_list)
           K  == Len(grid.kwargs_list)
           n  == Max(F, D)
           k0 == IF K = 0 THEN [k \in 1..D |-> NoKwargs] ELSE grid.kwargs_list
           k1 == IF Len(k0) = 1 THEN Times(D, k0) ELSE k0
           k2 == IF Len(k1) = 1 THEN Times(F, k1) ELSE k1
       IN  IF ~(F = D \/ F = 1 \/ D = 1)
               THEN out' = Raise("AssertionError", "function_list") /\ pc' = "done"
                    /\ UNCHANGED grid
           ELSE IF ~(K = 0 \/ K = 1 \/ K = D \/ K = F)
               THEN out' = Raise("AssertionError", "kwargs_list") /\ pc' = "done"
                    /\ UNCHANGED grid
           ELSE /\ grid' = [grid EXCEPT
                               !.number_of_plots = n,
                               !.number_of_rows = (n + grid.colwrap - 1) \div grid.colwrap,
                               !.kwargs_list = k2]
                /\ pc' = "subplots"
                /\ UNCHANGED out
    /\ UNCHANGED <<req, written, file, handles, opens, loc, signal, rate, prev, stack,
                   tmp, handler, handed>>

\* lines 26-34: plt.subplots(number_of_rows, colwrap) squeezes its result, so
\* a grid of one axes is the Axes itself and no array; then the data or the
\* functions are repeated
FacetSubplots ==
    /\ pc = "subplots"
    /\ LET d == IF Len(grid.data_list) = 1
                    THEN Times(Len(grid.function_list), grid.data_list)
                ELSE grid.data_list
           f == IF Len(grid.function_list) = 1
                    THEN Times(Len(d), grid.function_list)
                ELSE grid.function_list
       IN  grid' = [grid EXCEPT
                       !.axis = IF grid.number_of_rows * grid.colwrap = 1
                                    THEN "Axes" ELSE "ndarray",
                       !.data_list = d, !.function_list = f, !.index = 0]
    /\ pc' = "plot"
    /\ UNCHANGED <<req, written, file, handles, opens, loc, signal, rate, out, prev,
                   stack, tmp, handler, handed>>

\* lines 36-39: one turn of the plot loop; the function is looked up first,
\* then the axes, the data and the kwargs
FacetPlot ==
    /\ pc = "plot"
    /\ LET i == grid.index
       IN  IF i >= Len(grid.data_list)
               THEN /\ grid' = [grid EXCEPT !.index = grid.number_of_plots]
                    /\ pc' = "off" /\ UNCHANGED out
           ELSE IF i >= Len(grid.function_list)
               THEN out' = Raise("IndexError", "function_list") /\ pc' = "done"
                    /\ UNCHANGED grid
           ELSE IF grid.axis = "Axes"
               THEN out' = Raise("AttributeError", "flatten") /\ pc' = "done"
                    /\ UNCHANGED grid
           ELSE IF i >= Len(grid.kwargs_list)
               THEN out' = Raise("IndexError", "kwargs_list") /\ pc' = "done"
                    /\ UNCHANGED grid
           ELSE /\ grid' = [grid EXCEPT
                               !.calls = Append(@, [fn |-> grid.function_list[i + 1],
                                                    ax |-> i,
                                                    signal |-> grid.data_list[i + 1],
                                                    kwargs |-> grid.kwargs_list[i + 1]]),
                               !.index = i + 1]
                /\ UNCHANGED <<pc, out>>
    /\ UNCHANGED <<req, written, file, handles, opens, loc, signal, rate, prev, stack,
                   tmp, handler, handed>>

\* lines 41-44: the axes left over are switched off, then the layout is
\* tightened and the call returns
FacetOff ==
    /\ pc = "off"
    /\ IF grid.index < grid.number_of_rows * grid.colwrap
           THEN /\ grid' = [grid EXCEPT !.off = @ \cup {grid.index},
                                        !.index = grid.index + 1]
                /\ UNCHANGED <<pc, out>>
       ELSE /\ out' = [NoOut EXCEPT !.status = "return"]
            /\ pc' = "done"
            /\ UNCHANGED grid
    /\ UNCHANGED <<req, written, file, handles, opens, loc, signal, rate, prev, stack,
                   tmp, handler, handed>>

\* the entries of a list of n: data 1..n, functions 11.., kwargs 21..
Entries(base, n) == [k \in 1..n |-> base + k]

\* calls with at least one data entry and one function
InitFacet ==
    /\ req = [DefaultReq EXCEPT !.fn = "facet_grid"]
    /\ written = NoWritten
    /\ file = Disk(<<"a", ".wav">>)
    /\ InitCommon
    /\ handler = NoHandler
    /\ handed = <<>>
    /\ \E D \in 1..MaxLen, F \in 1..MaxLen, K \in 0..MaxLen, colwrap \in 1..MaxColwrap :
          grid = [NoGrid EXCEPT
                     !.args = <<Entries(0, D), Entries(10, F), Entries(20, K)>>,
                     !.data_list = Entries(0, D),
                     !.function_list = Entries(10, F),
                     !.kwargs_list = Entries(20, K),
                     !.colwrap = colwrap]

NextFacet ==
    \/ FacetEnter
    \/ FacetSubplots
    \/ FacetPlot
    \/ FacetOff

SpecFacet == InitFacet /\ [][NextFacet]_vars

----------------------------------------------------------------------------
(* Properties of the parser                                                *)

ParseDone == pc = "done" /\ req.fn = "_parse_audio_slice"

\* C1: for an annotation written by the grammar, _parse_audio_slice returns
\* the written start and stop as integers (a start that is not written as 0,
\* a stop that is not written as None) and the path without the '::' suffix.
C1_ParseRecoversBounds ==
    (ParseDone /\ written.valid) =>
        /\ out.status = "return"
        /\ out.path = written.p
        /\ out.start = (IF IsNone(written.a) THEN 0 ELSE Val(written.a))
        /\ out.stop = written.b

\* a two-digit start with a leading zero, no stop, parsed
C1_Witness ==
    /\ ParseDone /\ written.valid /\ out.status = "return"
    /\ written.a = Some(10) /\ IsNone(written.b)
    /\ Len(req.path) > Len(written.p) + 7
    /\ out.start = 10

\* C2: the channel selection is the bare index when one is written, else
\* slice(channel_start, channel_stop) when at least one of them is written,
\* else None (no comma part, ',' alone, or ',:').
C2_ChannelVariant ==
    (ParseDone /\ written.valid) =>
        out.channel =
            IF written.c.kind = "index" THEN ChInt(written.c.i)
            ELSE IF written.c.kind = "range"
                    /\ ~(IsNone(written.c.lo) /\ IsNone(written.c.hi))
                THEN ChSlice(written.c.lo, written.c.hi)
            ELSE ChNone

\* a half-open channel range with only its upper bound written
C2_Witness ==
    /\ ParseDone /\ written.valid
    /\ written.c.kind = "range" /\ IsNone(written.c.lo) /\ written.c.hi = Some(2)
    /\ out.channel.tag = "slice"

\* C3: with '::' more than once in the path, the text after the last '::' is
\* the annotation and everything before it, earlier '::' included, is the
\* returned path.
DelimCount(s) ==
    Cardinality({i \in 1..(Len(s) - 1) : s[i] = ":" /\ s[i + 1] = ":"})

C3_LastDelimiter ==
    (ParseDone /\ written.valid /\ DelimCount(req.path) > 1) =>
        /\ out.status = "return"
        /\ out.path = written.p
        /\ req.path = out.path \o <<":", ":">>
                        \o Annotation(written.a, written.b, written.c, written.zeros)
        /\ out.start = (IF IsNone(written.a) THEN 0 ELSE Val(written.a))
        /\ out.stop = written.b

\* a real path that itself contains '::' comes back whole
C3_Witness ==
    /\ ParseDone /\ written.valid /\ DelimCount(req.path) > 1
    /\ out.status = "return" /\ HasDelim(out.path) /\ out.start = 3

----------------------------------------------------------------------------
(* Properties of load_audio                                                *)

LoadDone == pc = "done" /\ req.fn = "load_audio"

\* the read-to-end sentinel frames=-1 in the unit of the request
FramesSentinel(r) == IF r.unit = "seconds" THEN -TimeDen ELSE -1

\* the path of the request is a string (or Path) with slice notation
HasNotation(r) == r.kind \in {"str", "Path"} /\ HasDelim(r.path)

\* C4: load_audio with a '::' path and any of start != 0, stop given, channel
\* given or frames != -1 raises AssertionError without opening an audio
\* source; it never returns, so neither input mode overrides the other.
C4_NotationExcludesParameters ==
    (/\ req.fn = "load_audio" /\ HasNotation(req)
     /\ \/ req.start # 0
        \/ ~IsNone(req.stop)
        \/ req.channel.tag # "none"
        \/ req.frames # FramesSentinel(req)) =>
        /\ opens = 0 /\ handles = 0
        /\ pc \in {"call", "done"}
        /\ pc = "done" => out.status = "raise" /\ out.exc = "AssertionError"

\* a well-formed annotation with start=1 passed as well: the call has failed
C4_Witness ==
    /\ LoadDone /\ HasNotation(req) /\ req.unit = "samples"
    /\ req.start = 1 /\ IsNone(req.stop) /\ req.channel.tag = "none" /\ req.frames = -1
    /\ FullMatch(RSplit(req.path).tail).matched
    /\ out.exc = "AssertionError" /\ opens = 0

\* two calls ended alike: the same value returned or the same exception
SameOutcome(o1, o2) ==
    /\ o1.status = o2.status
    /\ o1.exc = o2.exc
    /\ o1.emsg = o2.emsg
    /\ o1.signal = o2.signal

\* C5: load_audio(p + '::[a:b,c]') ends as load_audio(p, start=a, stop=b,
\* channel=c) does, for every file p and every annotation.
C5_NotationEquivalent ==
    (LoadDone /\ written.valid /\ Len(prev) = 1) => SameOutcome(prev[1].out, out)

\* the sample axis is the last one
SampleAxis(b) == b.shape[b.ndim]

\* the request of claim C6: a plain non-.m4a path read in samples from
\* start s, 0 <= s <= L, with frames = n > L - s
ShortRead ==
    /\ LoadDone /\ req.unit = "samples" /\ ~HasNotation(req)
    /\ ~IsM4a(LocOf(req)) /\ file.state = "good"
    /\ IsNone(req.stop)
    /\ req.start >= 0 /\ req.start <= file.frames
    /\ req.frames > file.frames - req.start

PlainReturn == LoadDone /\ out.status = "return" /\ loc.channel.tag = "none"

\* rows are channels: row c holds samples of channel c - 1 in file order,
\* then fill values
ChannelMajor(b, f) ==
    /\ b.ndim = 2
    /\ b.shape[1] = f.channels
    /\ Len(b.data) = f.channels
    /\ \A c \in 1..f.channels :
           /\ Len(b.data[c]) = b.shape[2]
           /\ \A k \in 1..b.shape[2] :
                  b.data[c][k] \in {Sample(t, c - 1) : t \in 0..(f.frames - 1)}
                                       \cup {FillValue}

OutsideFile(ch, C) ==
    CASE ch.tag = "int"   -> ch.i \notin 0..(C - 1)
      [] ch.tag = "list"  -> \A k \in 1..Len(ch.idx) : ch.idx[k] \notin 0..(C - 1)
      [] ch.tag = "slice" ->
            /\ (IsNone(ch.lo) \/ Val(ch.lo) >= 0) /\ (IsNone(ch.hi) \/ Val(ch.hi) >= 0)
            /\ {c \in 0..(C - 1) : (IsNone(ch.lo) \/ c >= Val(ch.lo))
                                   /\ (IsNone(ch.hi) \/ c < Val(ch.hi))} = {}
      [] OTHER -> FALSE

\* the source decoded and its rate was the expected one: the call got as
\* far as the channel selection
ReachedSelection ==
    LoadDone /\ ~IsNone(rate)
    /\ ~RateMismatch(req.expected_sample_rate, Val(rate))

EmptyError == out.status = "raise" /\ out.exc = "ValueError"
              /\ out.emsg = "Returned signal would be empty"

\* C8 as stated, for the files the generic decoder reads: a channel
\* selection that lies outside the file's channels, be it an int, a list or
\* a range, ends in ValueError 'Returned signal would be empty'.
C8_OutsideIsValueError ==
    (ReachedSelection /\ ~IsM4a(loc) /\ OutsideFile(loc.channel, file.channels))
        => EmptyError

\* the selection selects nothing: a range without an index in it, an empty
\* list, or indices that numpy does not accept for C channels
SelectsNothing(ch, C) ==
    CASE ch.tag = "int"   -> ch.i \notin (-C)..(C - 1)
      [] ch.tag = "list"  -> \A k \in 1..Len(ch.idx) : ch.idx[k] \notin (-C)..(C - 1)
      [] ch.tag = "slice" -> SliceIndices(ch.lo, ch.hi, C).stop
                                 <= SliceIndices(ch.lo, ch.hi, C).start
      [] OTHER -> FALSE

\* C8 amended: no request whose channel selection selects nothing returns a
\* buffer; a range or an empty list ends in the ValueError, an int or a list
\* of indices outside -C..C-1 in numpy's IndexError, and any channel request
\* on the .m4a path in the AssertionError of line 274.
C8_OutsideNeverReturns ==
    (ReachedSelection /\ SelectsNothing(loc.channel, file.channels)) =>
        IF IsM4a(loc) THEN out.status = "raise" /\ out.exc = "AssertionError"
        ELSE IF loc.channel.tag = "slice" \/ loc.channel = ChList(<<>>) THEN EmptyError
        ELSE out.status = "raise" /\ out.exc = "IndexError"

\* a range above the last channel of a decoded file
C8_Witness ==
    /\ ReachedSelection /\ ~IsM4a(loc)
    /\ loc.channel = ChSlice(Some(MaxChannels), None)
    /\ file.frames > 0
    /\ EmptyError

\* the samples of a returned buffer are samples of the file in file order,
\* one frame apart, or padding
Unresampled(b, f) ==
    \A r \in 1..Len(b.data) : \A k \in 1..Len(b.data[r]) :
        LET v == b.data[r][k]
        IN  /\ v \in {Sample(t, c) : t \in 0..(f.frames - 1), c \in 0..(f.channels - 1)}
                     \cup {FillValue, 0}
            /\ (k > 1 /\ v \notin {FillValue, 0} /\ ~IsM4a(loc)
                    /\ (b.ndim = 2 \/ f.channels = 1))
                   => v = b.data[r][k - 1] + 10

\* C9: when the expected sample rate differs from the file's, load_audio
\* and audioread return nothing, and once the source has been opened and
\* decoded the error is the ValueError that carries both rates; when none
\* is expected or the rates agree, what is returned are the file's own
\* samples at the file's own rate.
C9_RateMismatchRaises ==
    pc = "done" =>
        LET esr  == req.expected_sample_rate
            mism == ~IsNone(esr) /\ Val(esr) # file.samplerate
            decoded == IF req.fn = "audioread" THEN file.state = "good"
                       ELSE ~IsNone(rate)
        IN  /\ mism => out.status = "raise"
            /\ (mism /\ decoded) =>
                   /\ out.exc = "ValueError"
                   /\ out.enums = <<Val(esr), file.samplerate>>
            /\ (~mism /\ out.status = "return") =>
                   /\ Unresampled(out.signal, file)
                   /\ ~IsNone(out.rate) => out.rate = Some(file.samplerate)

C9_Witness ==
    /\ LoadDone /\ file.state = "good"
    /\ req.expected_sample_rate = Some(MaxRate) /\ file.samplerate = 1
    /\ out.status = "raise" /\ out.enums = <<MaxRate, 1>>
    /\ signal # NoSignal

\* C10: whenever the audio source fails to open or decode, load_audio
\* raises the RuntimeError whose message embeds the file-type probe; no
\* decoder error reaches the caller as it was raised.
C10_DecodeErrorsEnriched ==
    (LoadDone /\ file.state # "good" /\ out.status = "raise"
     /\ out.exc \in {"RuntimeError", "audioread.DecodeError"}) =>
        out.exc = "RuntimeError" /\ out.probe

----------------------------------------------------------------------------
(* Properties of the unit stage and of the .m4a path                       *)

\* m is n / d rounded to the nearest integer, a half to the even one
Nearest(m, n, d) ==
    LET e == IF m * d >= n THEN m * d - n ELSE n - m * d
    IN  2 * e <= d /\ (2 * e = d => m % 2 = 0)

\* a load_audio call in seconds on a plain path has read the sample rate
\* and stands before the decode
Converted ==
    /\ req.fn = "load_audio" /\ req.unit = "seconds" /\ ~HasNotation(req)
    /\ pc = "decode"

C12_NegativeStopSeconds ==
    (/\ req.fn = "load_audio" /\ req.unit = "seconds" /\ ~HasNotation(req)
     /\ ~IsNone(req.stop) /\ Val(req.stop) < 0) =>
        /\ opens = 0 /\ handles = 0
        /\ pc \in {"call", "unit", "done"}
        /\ pc = "done" =>
               /\ out.status = "raise" /\ out.exc = "NotImplementedError"
               /\ out.eunit = "seconds" /\ out.enums = <<Val(req.stop)>>

C12_Witness ==
    /\ LoadDone /\ req.unit = "seconds" /\ req.stop = Some(-1)
    /\ file.state = "good"
    /\ out.exc = "NotImplementedError" /\ opens = 0

\* C13 as stated: whatever the path and the other parameters, a unit other
\* than 'samples' and 'seconds' ends in ValueError(unit) with no audio source
\* opened.
C13_InvalidUnitIsValueError ==
    (LoadDone /\ req.unit \notin {"samples", "seconds"}) =>
        /\ out.status = "raise" /\ out.exc = "ValueError" /\ out.eunit = req.unit
        /\ opens = 0

\* C13 amended: such a unit never opens an audio source and never returns;
\* the error is ValueError(unit) on a path without slice notation and the
\* AssertionError of line 183 on a path with it.
C13_InvalidUnitFails ==
    (req.fn = "load_audio" /\ req.unit \notin {"samples", "seconds"}) =>
        /\ opens = 0 /\ handles = 0
        /\ pc \in {"call", "unit", "done"}
        /\ pc = "done" =>
               /\ out.status = "raise"
               /\ IF HasNotation(req)
                      THEN out.exc = "AssertionError" /\ out.emsg = "unit"
                  ELSE out.exc = "ValueError" /\ out.eunit = req.unit

C13_Witness ==
    /\ LoadDone /\ req.unit = "hours" /\ ~HasNotation(req)
    /\ req.kind = "fileobj" /\ ~IsNone(req.expected_sample_rate)
    /\ out.exc = "ValueError" /\ out.eunit = "hours" /\ opens = 0

\* C14: on an .m4a path a request for part of the file (start other than 0,
\* a stop, or a positive frames count) never returns data and never opens
\* the decoder.
C14_PartialM4aRejected ==
    (/\ LoadDone /\ IsM4a(loc) /\ req.unit = "samples"
     /\ (loc.start # 0 \/ ~IsNone(loc.stop) \/ req.frames > 0)) =>
        out.status = "raise" /\ opens = 0

----------------------------------------------------------------------------
(* Handles, repeated calls, the channel axis                               *)

\* C17: at most one audio source handle is open at any time of a load_audio
\* call; the metadata handle of unit 'seconds' is closed before the decoder
\* is opened, the decoder's handle before the sample rate is compared, and
\* none is open when the call has ended, by return or by exception.
C17_HandlesClosed ==
    req.fn = "load_audio" =>
        /\ handles \in {0, 1}
        /\ handles <= opens
        /\ pc \in {"call", "unit", "decode", "rate", "transpose", "select",
                   "return", "done"} => handles = 0
        /\ pc \in {"probe", "read", "read_m4a"} => handles = 1

\* a call in seconds opened the file twice and ended in the sample-rate
\* error
C17_Witness ==
    /\ LoadDone /\ req.unit = "seconds" /\ opens = 2 /\ handles = 0
    /\ out.status = "raise" /\ out.emsg = "Requested sampling rate"

\* the call that ended is the second of two calls with the same arguments
Repeated == LoadDone /\ Len(prev) = 1 /\ prev[1].req = req

Returned == LoadDone /\ out.status = "return"

\* C20 as stated: no returned buffer has a channel axis of length one.
C20_OneChannelIsOneDim ==
    Returned => ~(out.signal.ndim = 2 /\ out.signal.shape[1] = 1)

\* C20 amended: a buffer from the generic decoder is one-dimensional when
\* the file has one channel and no channel is requested, or when the channel
\* is an integer; a channel list or range keeps the channel axis, of length
\* one when one channel is selected.
C20_AxisElision ==
    (Returned /\ ~IsM4a(loc)) =>
        CASE loc.channel.tag = "none" ->
                 IF file.channels = 1 THEN out.signal.ndim = 1
                 ELSE out.signal.ndim = 2 /\ out.signal.shape[1] = file.channels
          [] loc.channel.tag = "int" -> out.signal.ndim = 1
          [] loc.channel.tag = "list" ->
                 out.signal.ndim = 2 /\ out.signal.shape[1] = Len(loc.channel.idx)
          [] loc.channel.tag = "slice" ->
                 /\ out.signal.ndim = 2
                 /\ out.signal.shape[1] \in 1..file.channels

\* channel 0 of a two-channel file, by its index
C20_Witness ==
    /\ Returned /\ ~IsM4a(loc) /\ loc.channel = ChInt(0)
    /\ file.channels = 2 /\ file.frames = 2
    /\ out.signal.ndim = 1
    /\ out.signal.data = <<<<Sample(0, 0), Sample(1, 0)>>>>

\* C19 as stated: a call that leaves dtype at its default gets a buffer of
\* the file's native numeric type from the generic decoder.
C19_DefaultIsNative ==
    (Returned /\ ~IsM4a(loc) /\ req.dtype = DefaultReq.dtype) =>
        out.signal.dtype = SubtypeDtype(file.subtype)

\* C19 amended: the buffer has the native type of the file's subtype (int16
\* for PCM_16, float32 for FLOAT, float64 for DOUBLE) when the caller passes
\* dtype=None, and no buffer is returned for another subtype then; with
\* dtype left at its default the buffer is float64, and with a dtype given
\* it has that type.
C19_DtypeOfResult ==
    /\ (Returned /\ ~IsM4a(loc)) =>
           out.signal.dtype =
               IF req.dtype # "None" THEN req.dtype
               ELSE CASE file.subtype = "PCM_16" -> "int16"
                      [] file.subtype = "FLOAT"  -> "float32"
                      [] file.subtype = "DOUBLE" -> "float64"
                      [] OTHER -> "none"
    /\ (LoadDone /\ ~IsM4a(loc) /\ req.dtype = "None"
            /\ file.subtype \notin {"PCM_16", "FLOAT", "DOUBLE"}) =>
           out.status = "raise"

\* a FLOAT file read with dtype=None
C19_Witness ==
    /\ Returned /\ ~IsM4a(loc) /\ req.dtype = "None" /\ file.subtype = "FLOAT"
    /\ file.channels = 2 /\ loc.channel = ChInt(0)
    /\ out.signal.dtype = "float32" /\ out.signal.ndim = 1

----------------------------------------------------------------------------
(* Properties of recursive_load_audio                                      *)

\* the paths of the leaves of a structure, in the order of the entries
RECURSIVE Leaves(_)
RECURSIVE LeavesOf(_)
LeavesOf(kids) == IF kids = <<>> THEN <<>>
                  ELSE Leaves(kids[1]) \o LeavesOf(Tail(kids))
Leaves(node) == IF node.tag = "leaf" THEN <<node.path>> ELSE LeavesOf(node.kids)

\* the structure the outermost call was given
Root == IF stack = <<>> THEN req.tree ELSE stack[1].call.tree

\* the outermost call has ended
RecDone == pc = "done" /\ req.fn = "recursive_load_audio"

\* the outermost call was given a list, tuple or generator and returned
SeqReturned == RecDone /\ out.status = "return" /\ req.tree.tag \in SeqTags

\* load_audio was called for the first n leaves, in their order, with the
\* keyword parameters of the outermost call
LoadedInOrder(n) ==
    /\ Len(prev) = n
    /\ n <= Len(Leaves(Root))
    /\ \A k \in 1..n :
           prev[k].req = [(IF stack = <<>> THEN req ELSE stack[1].call) EXCEPT
                             !.fn = "load_audio", !.path = Leaves(Root)[k],
                             !.tree = NoNode]

\* C15 as stated: the results of the entries are stacked exactly when all of
\* them are buffers of one shape and one numeric type.
C15_StackedIffSameShapeAndType ==
    SeqReturned =>
        LET es == out.value.items
        IN  out.value.tag = "stacked" <=>
                \A k \in 1..Len(es) : /\ IsBuffer(es[k])
                                      /\ es[k].shape = es[1].shape
                                      /\ es[k].dtype = es[1].dtype

\* C15 amended: every entry is loaded, in order and with the same keyword
\* parameters; the results are stacked under a new first axis exactly when
\* all of them are buffers of one shape, whatever their numeric types, of
\* which the stacked buffer has the widest; else they are returned as a
\* list in the order of the entries, none of them stacked with another.
C15_StackedIffSameShape ==
    SeqReturned =>
        LET v  == out.value
            es == v.items
            n  == Len(req.tree.kids)
        IN  /\ LoadedInOrder(Len(Leaves(req.tree)))
            /\ v.tag \in {"stacked", "list"}
            /\ Len(es) = n
            /\ v.tag = "stacked" <=>
                   \A k \in 1..n : IsBuffer(es[k]) /\ es[k].shape = es[1].shape
            /\ (v.tag = "stacked" /\ n > 0) =>
                   /\ v.shape = <<n>> \o es[1].shape
                   /\ v.dtype \in {es[k].dtype : k \in 1..n}
                   /\ \A k \in 1..n : Rank(v.dtype) >= Rank(es[k].dtype)
            /\ (\A k \in 1..n : req.tree.kids[k].tag = "leaf") =>
                   \A k \in 1..n :
                       /\ es[k].tag = (IF req.return_sample_rate THEN "pair"
                                       ELSE "array")
                       /\ es[k].buf = prev[k].out.signal
                       /\ es[k].rate = prev[k].out.rate

\* two different files of one shape, stacked
C15_Witness ==
    /\ SeqReturned /\ out.value.tag = "stacked"
    /\ out.value.shape = <<2, MaxFrames>>
    /\ req.tree.kids[1].path = <<"a", ".wav">>
    /\ req.tree.kids[2].path[1] = "c" /\ HasDelim(req.tree.kids[2].path)
    /\ prev[2].out.signal.ndim = 1
    /\ out.value.items[2].buf = prev[2].out.signal

\* C16: load_audio is called for the leaves in the order of the entries;
\* as soon as one call raises, the outermost call has ended with that very
\* exception, a ValueError included, without a value and without a call for
\* any later leaf.
C16_FirstFailureAborts ==
    req.fn \in {"recursive_load_audio", "load_audio"} =>
        LET failed == \E k \in 1..Len(prev) : prev[k].out.status = "raise"
        IN  /\ LoadedInOrder(Len(prev))
            /\ \A k \in 1..(Len(prev) - 1) : prev[k].out.status = "return"
            /\ failed =>
                   /\ RecDone
                   /\ out = prev[Len(prev)].out
                   /\ out.status = "raise" /\ out.value = NoValue
            /\ (RecDone /\ ~failed) =>
                   out.status = "return" /\ Len(prev) = Len(Leaves(req.tree))

\* the second of three leaves raised ValueError, the third was not loaded
C16_Witness ==
    /\ RecDone /\ out.status = "raise" /\ out.exc = "ValueError"
    /\ Len(Leaves(req.tree)) = 3 /\ Len(prev) = 2
    /\ prev[1].out.status = "return"
    /\ prev[2].opens = 1

----------------------------------------------------------------------------
(* Properties of the parser: the language it accepts                       *)

\* s[i..j] are digits
AllDigits(s, i, j) == \A k \in i..j : IsDigit(s[k])

\* '[' optional-int ':' optional-int ']'
InSampleGrammar(s) ==
    \E p \in 2..(Len(s) - 1) :
        /\ s[1] = "[" /\ s[p] = ":" /\ s[Len(s)] = "]"
        /\ AllDigits(s, 2, p - 1) /\ AllDigits(s, p + 1, Len(s) - 1)

\* the stated grammar: '[' optional-int ':' optional-int, then nothing, or
\* ',' and optional-int ':' optional-int, or ',' and an int, then ']'
InGrammar(s) ==
    \/ InSampleGrammar(s)
    \/ \E q \in 3..(Len(s) - 1) :
          /\ s[q] = "," /\ s[Len(s)] = "]"
          /\ InSampleGrammar(SubSeq(s, 1, q - 1) \o <<"]">>)
          /\ \/ q + 1 <= Len(s) - 1 /\ AllDigits(s, q + 1, Len(s) - 1)
             \/ \E r \in (q + 1)..(Len(s) - 1) :
                   /\ s[r] = ":"
                   /\ AllDigits(s, q + 1, r - 1) /\ AllDigits(s, r + 1, Len(s) - 1)

\* '[a:b,]': the comma is followed by nothing
TrailingComma(s) ==
    /\ Len(s) >= 4 /\ s[Len(s) - 1] = "," /\ s[Len(s)] = "]"
    /\ InSampleGrammar(SubSeq(s, 1, Len(s) - 2) \o <<"]">>)

\* a direct call with the default start, stop and channel has ended; the
\* annotation is what follows the last '::'
Parsed == ParseDone /\ SliceArgsDefault(req.start, req.stop, req.channel)
SliceText == RSplit(req.path).tail

\* the ValueError that carries the whole path and has the parse exception
\* as its cause
IsFormatError(o) ==
    /\ o.status = "raise" /\ o.exc = "ValueError"
    /\ o.epath = req.path /\ o.cause # ""

\* C21: the parser returns a result for exactly the annotations of the
\* stated grammar; '[:,]' and '[3:4,]' are not among them.
C21_AcceptsExactlyGrammar ==
    Parsed => (out.status = "return" <=> InGrammar(SliceText))

\* C22 as stated: every annotation outside the grammar ends in the
\* ValueError that carries the whole path and has a cause.
C22_MalformedIsFormatError ==
    (Parsed /\ ~InGrammar(SliceText)) => IsFormatError(out)

\* C22 amended: an annotation outside the grammar ends in that ValueError
\* when it holds no space and its comma is followed by something; one with
\* a space ends in the AssertionError of line 327, and one whose comma is
\* followed by nothing is parsed as if the comma were not there.
C22_MalformedOutcome ==
    (Parsed /\ ~InGrammar(SliceText)) =>
        IF HasSpace(SliceText)
            THEN out.status = "raise" /\ out.exc = "AssertionError"
        ELSE IF TrailingComma(SliceText)
            THEN out.status = "return" /\ out.channel = ChNone
        ELSE IsFormatError(out)

\* a negative start
C22_Witness ==
    /\ Parsed /\ SliceText = <<"[", "-", "5", ":", "]">>
    /\ IsFormatError(out) /\ out.cause = "AttributeError"
    /\ HasDelim(out.epath)

Whitespace == {" ", "\t", "\n"}

\* C23 as stated: an annotation with a space, a tab or a newline in it ends
\* in the same ValueError as any other malformed annotation.
C23_WhitespaceIsFormatError ==
    (Parsed /\ \E k \in 1..Len(SliceText) : SliceText[k] \in Whitespace) => IsFormatError(out)

\* C23 amended: with a space in it the annotation ends in AssertionError,
\* before the pattern is tried; with a tab or a newline and no space, in the
\* ValueError of a malformed annotation.
C23_WhitespaceOutcome ==
    (Parsed /\ \E k \in 1..Len(SliceText) : SliceText[k] \in Whitespace) =>
        IF \E k \in 1..Len(SliceText) : SliceText[k] = " "
            THEN out.status = "raise" /\ out.exc = "AssertionError"
                 /\ out.emsg = "space"
        ELSE IsFormatError(out)

\* a tab between the bounds
C23_Witness ==
    /\ Parsed /\ \E k \in 1..Len(SliceText) : SliceText[k] = "\t"
    /\ IsFormatError(out)

----------------------------------------------------------------------------
(* Properties of load_audio: what its errors carry, empty windows          *)

\* the errors the sentence lists, by the statement that raises them
ListedError(o) ==
    \/ o.exc = "ValueError" /\ o.emsg \in {"unit", "Requested sampling rate",
                                           "Returned signal would be empty", "path"}
    \/ o.exc = "NotImplementedError"
    \/ o.exc = "RuntimeError"

\* C24 as stated: each listed error of load_audio carries the path, and the
\* decode error the file-type description as well.
C24_ErrorsCarryPath ==
    (LoadDone /\ out.status = "raise" /\ ListedError(out)) =>
        /\ out.epath # <<>>
        /\ out.exc = "RuntimeError" => out.probe

\* the RuntimeError of the decoder arises inside the try block (not at the
\* metadata open of unit 'seconds') and the source is a str or Path
Enriched ==
    /\ req.kind \in {"str", "Path"}
    /\ ~(req.unit = "seconds" /\ file.state = "noopen")

\* C24 amended: of the listed errors only two carry a path. The
\* malformed-annotation ValueError carries the whole original path. The
\* decoder's RuntimeError carries the path and the file-type description
\* when the source is a str or Path and the error arises inside the try
\* block; otherwise it is the decoder's own. The invalid-unit error carries
\* the unit, the negative-stop error the unit and the stop, the
\* sample-rate error the two rates, the empty-selection error a fixed text.
C24_PathInErrors ==
    (LoadDone /\ out.status = "raise" /\ ListedError(out)) =>
        CASE out.emsg = "path" ->
                out.epath = req.path /\ ~out.probe
          [] out.exc = "RuntimeError" ->
                IF Enriched
                    THEN out.epath = loc.path /\ out.probe /\ out.cause = "RuntimeError"
                ELSE out.epath = <<>> /\ ~out.probe
          [] out.exc = "NotImplementedError" ->
                out.epath = <<>> /\ out.eunit = req.unit /\ Len(out.enums) = 1
          [] out.emsg = "unit" ->
                out.epath = <<>> /\ out.eunit = req.unit
          [] out.emsg = "Requested sampling rate" ->
                out.epath = <<>> /\ out.enums = <<Val(req.expected_sample_rate), Val(rate)>>
          [] OTHER -> out.epath = <<>> /\ out.enums = <<>> /\ out.eunit = ""

\* a file that cannot be decoded, named by a str
C24_Witness ==
    /\ LoadDone /\ out.status = "raise" /\ out.exc = "RuntimeError"
    /\ out.probe /\ out.epath = loc.path /\ out.epath # <<>>

\* a call of load_audio on the generic decoder has read a window of zero
\* frames and passed the sample-rate check: it stands at the channel
\* selection with an empty buffer
EmptyWindow ==
    /\ LoadDone /\ ~IsM4a(loc) /\ ~IsNone(rate)
    /\ IsNone(req.expected_sample_rate) \/ req.expected_sample_rate = rate
    /\ signal.shape[signal.ndim] = 0

\* C25 as stated: a window of zero frames is returned as an empty buffer
\* when no channel is requested, and fails with the ValueError of the empty
\* selection when any channel selection is given.
C25_EmptyWindowByChannel ==
    EmptyWindow =>
        IF loc.channel = ChNone
            THEN out.status = "return" /\ Size(out.signal) = 0
        ELSE EmptyError

\* the channel index, or one of the list's, lies outside -C..C-1
OutOfChannels(channel, C) ==
    \/ channel.tag = "int" /\ (channel.i < -C \/ channel.i >= C)
    \/ channel.tag = "list" /\ \E k \in 1..Len(channel.idx) :
                                  channel.idx[k] < -C \/ channel.idx[k] >= C

\* C25 amended: a window of zero frames is returned as an empty buffer when
\* no channel is requested; with a channel selection it fails, with
\* IndexError when an index of the selection lies outside the file's
\* channels and with the ValueError of the empty selection otherwise, also
\* when the selection names existing channels.
C25_EmptyWindowOutcome ==
    EmptyWindow =>
        IF loc.channel = ChNone
            THEN out.status = "return" /\ Size(out.signal) = 0
        ELSE IF OutOfChannels(loc.channel, file.channels)
            THEN out.status = "raise" /\ out.exc = "IndexError"
        ELSE EmptyError

\* channel 0 of a window that starts at the end of a file with frames
C25_Witness ==
    /\ EmptyWindow /\ file.frames > 0 /\ loc.start >= file.frames
    /\ loc.channel = ChInt(0) /\ EmptyError

----------------------------------------------------------------------------
(* Properties of audio_length and read_nist_wsj                            *)

\* C26: when read_nist_wsj has ended, by returning or by raising, the
\* temporary file it created is gone.
C26_NoTemporaryFileLeft ==
    (pc = "done" /\ req.fn = "read_nist_wsj") => tmp = {}

\* C27: audio_length with a unit other than 'samples' and 'seconds' raises
\* ValueError and returns nothing.
C27_AudioLengthRejectsUnit ==
    (pc = "done" /\ req.fn = "audio_length" /\ req.unit \notin {"samples", "seconds"}) =>
        out.status = "raise" /\ out.exc = "ValueError"

----------------------------------------------------------------------------
(* Properties of _AxesHandler                                              *)

\* C28: after any sequence of accesses, failed ones included, the counter
\* is -1 with no row created, or it names an axes of the last row created.
C28_CounterNamesAxes ==
    \/ handler.counter = -1 /\ handler.subplots = <<>>
    \/ /\ 0 <= handler.counter
       /\ handler.counter < handler.columns * Len(handler.subplots)
       /\ Len(handler.subplots) = handler.counter \div handler.columns + 1

\* C29: the axes `new` hands out lies at a flat position above every
\* position handed out before it, and `last` directly after `new` returns
\* the same axes with the rows and the counter unchanged.
C29_NewIsFresh ==
    \A k \in 1..Len(handed) :
        /\ handed[k].kind = "new" =>
              /\ handed[k].status = "return"
              /\ \A j \in 1..(k - 1) :
                    handed[j].status = "return" => handed[j].flat < handed[k].flat
        /\ (k > 1 /\ handed[k].kind = "last" /\ handed[k - 1].kind = "new") =>
              /\ handed[k].status = "return"
              /\ handed[k].flat = handed[k - 1].flat
              /\ handed[k].rows = handed[k - 1].rows
              /\ handed[k].counter = handed[k - 1].counter

----------------------------------------------------------------------------
(* Properties of facet_grid                                                *)

\* the list l as the sentence repeats it to n entries: a list of one entry
\* n times, an empty list as n empty kwargs
RepeatedTo(l, n) ==
    [k \in 1..n |-> IF Len(l) = 0 THEN NoKwargs
                    ELSE IF Len(l) = 1 THEN l[1] ELSE l[k]]

\* the lengths pass the two assertions
PassesAssertions(D, F, K) ==
    /\ F = D \/ F = 1 \/ D = 1
    /\ K = 0 \/ K = 1 \/ K = D \/ K = F

\* the call has ended with max(len(data_list), len(function_list)) plot
\* calls, the i-th of them with the i-th entry of each repeated list
Broadcast ==
    LET n == Max(Len(grid.args[1]), Len(grid.args[2]))
    IN  /\ out.status = "return"
        /\ Len(grid.calls) = n
        /\ \A i \in 1..n :
              /\ grid.calls[i].signal = RepeatedTo(grid.args[1], n)[i]
              /\ grid.calls[i].fn = RepeatedTo(grid.args[2], n)[i]
              /\ grid.calls[i].kwargs = RepeatedTo(grid.args[3], n)[i]

\* C30: for all lengths that pass the two assertions facet_grid makes
\* exactly max(len(data_list), len(function_list)) plot calls, the i-th with
\* the i-th entry of each list after repetition, and no index is out of
\* range.
C30_FacetBroadcast ==
    (/\ pc = "done" /\ req.fn = "facet_grid"
     /\ PassesAssertions(Len(grid.args[1]), Len(grid.args[2]), Len(grid.args[3])))
        => Broadcast

====
